---- MODULE Spec2Model ----
(***************************************************************************)
(* AI4GCNpy: the two LangGraph workflows of src/ai4gcnpy/agents.py.        *)
(*                                                                         *)
(*   GraphQAAgent       guardrails -> generate_cypher -> execute_cypher    *)
(*                      <-> correct_cypher -> END   (QASpec, FairQASpec)   *)
(*   GCNExtractorAgent  text_split -> router_node <-> extractor nodes      *)
(*                      -> END                      (ExtractSpec)          *)
(*                                                                         *)
(* A node is one action: its state update and the edge taken after it.     *)
(* The LLM chains and the graph store are external capabilities; each      *)
(* call either raises or returns a value drawn from a small set.  An       *)
(* exception that leaves a node leaves app.invoke: the run is "raised".    *)
(***************************************************************************)
EXTENDS Integers, Sequences, FiniteSets, TLC

VARIABLES
    \* ---- GraphQAState (agents.py:281-301) and the position of the run
    qa_node,            \* node about to run, "END", "raised" or "idle"
    cypher_statement,
    cypher_error,
    retry_count,
    retrieved_chunks,
    answer,
    next_action,
    call_log,           \* history: <<node, result>> per capability call; result is
                        \* "ok" or "raise" (guardrails: the decision or "raise")
    io_log,             \* history: <<"execute_cypher", query run, error raised>> per
                        \* failed execution and <<"correct_cypher", cypher, errors>>
                        \* per invocation of the corrector chain
    \* ---- CircularState (agents.py:18-26) and the position of the run
    ex_node,            \* node about to run, "END", "raised" or "idle"
    raw_text,
    paragraphs,
    pending_labels,
    extracted_dset,
    current_label,
    step_log,           \* history: <<node, label, "ok" | "skip" | "fail" | "raise">>
    returned,           \* what _run_extraction (core.py:16-68) returned, if it has
    \* ---- a call of a pure function of utils.py
    fn_pc,              \* "call", "done" or "idle"
    fn_args,            \* the arguments
    fn_result,          \* what the call returned or raised
    \* ---- _run_builder (core.py:71-141)
    bd_pc,              \* "resolve", "connect", "loop", "exit_scope", "close",
                        \* "returned", "raised" or "idle"
    input_path,         \* what input_path names
    json_files,         \* the files of the batch, in order
    file_index,         \* index of the next file of the loop
    count,              \* files_processed and files_skipped
    tx_writes,          \* statements run in the open transaction: <<file, statement>>
    committed,          \* the write set the graph store committed
    file_log            \* history: <<file, outcome>> per loop iteration

qa_vars == <<qa_node, cypher_statement, cypher_error, retry_count,
             retrieved_chunks, answer, next_action, call_log, io_log>>
ex_vars == <<ex_node, raw_text, paragraphs, pending_labels, extracted_dset,
             current_label, step_log, returned>>
fn_vars == <<fn_pc, fn_args, fn_result>>
bd_vars == <<bd_pc, input_path, json_files, file_index, count, tx_writes,
             committed, file_log>>
vars == <<qa_vars, ex_vars, fn_vars, bd_vars>>

-----------------------------------------------------------------------------
(* Bounds of the model *)

\* distinct non-empty query texts the generator / corrector may return
NumQueryTexts == 2
\* distinct error messages the graph store may raise
NumErrors == 2
\* distinct non-empty row lists a successful execution may return
NumRowSets == 1

-----------------------------------------------------------------------------
(* Values *)

\* a key of the state dict that no node has written yet
Unset == "<unset>"
\* the same for retrieved_chunks, whose values are lists of rows
UnsetRows == <<Unset>>

QueryTexts == {""} \cup {"MATCH" \o ToString(i) : i \in 1..NumQueryTexts}
Errors == {"err" \o ToString(i) : i \in 1..NumErrors}
RowSets == {<<>>} \cup {<<"row" \o ToString(i)>> : i \in 1..NumRowSets}

\* agents.py:333-335
RefusalMessage == "I specialize exclusively in NASA's General Coordinates Network (GCN). Your question appears unrelated to this domain, so I cannot assist."
\* agents.py:435
FailureMessage == "Failed to correct cypher"

\* the values GuardrailsOutput.decision may take; only "end" is tested for
Decisions == {"end", "continue", "End"}

Log(cap, result) == Append(call_log, <<cap, result>>)
Calls(cap) == Len(SelectSeq(call_log, LAMBDA c : c[1] = cap))
LastCall == IF call_log = <<>> THEN <<"none", "none">> ELSE call_log[Len(call_log)]

-----------------------------------------------------------------------------
(* GraphQAAgent *)

\* the state _run_graphrag hands to app.invoke: the question, the graph and
\* retry_count = 0; the keys the nodes write are absent
initial_state ==
    [cypher_statement |-> Unset, cypher_error |-> Unset, retry_count |-> 0,
     retrieved_chunks |-> UnsetRows, answer |-> Unset, next_action |-> Unset]

\* fail-open: a failed guardrail call lets the question through
guardrails_decision_failopen(outcome) ==
    IF outcome = "raise" THEN "continue" ELSE outcome

\* fail-closed on everything but one value: any decision other than
\* "continue" is taken for a rejection
guardrails_decision_strict(outcome) ==
    IF outcome = "continue" THEN outcome ELSE "end"

\* agents.py:323-330: the decision guardrails() acts on, given what the chain
\* call did ("raise" or the decision it returned)
guardrails_decision(outcome) ==
    IF outcome = "raise" THEN "end" ELSE outcome

\* the edge out of guardrails always leads to generate_cypher
guardrails_edge_always_generate(action) == "generate_cypher"

\* agents.py:467-474: conditional edge after guardrails
guardrails_edge(action) ==
    IF action = "generate_cypher" THEN "generate_cypher" ELSE "END"

\* the edge out of execute_cypher always leads to correct_cypher
execute_edge_always_correct(action) == "correct_cypher"

\* agents.py:476-483: conditional edge after execute_cypher
execute_edge(action) ==
    IF action = "correct_cypher" THEN "correct_cypher" ELSE "generate_final_answer"

\* agents.py:484-491: conditional edge after correct_cypher
correct_edge(action) ==
    IF action = "execute_cypher" THEN "execute_cypher" ELSE "END"

\* one correction more is allowed
retry_allowed_once_more(count_so_far) == count_so_far <= 3

\* agents.py:426: the corrected query is executed while retry_count <= 2
retry_allowed(count_so_far) == count_so_far <= 2

\* agents.py:316-343
guardrails ==
    /\ qa_node = "guardrails"
    /\ \E outcome \in Decisions \cup {"raise"} :
         LET decision == guardrails_decision(outcome) IN
         /\ call_log' = Log("guardrails", outcome)
         /\ IF decision = "end"
            THEN /\ answer' = RefusalMessage
                 /\ next_action' = "end"
            ELSE /\ answer' = answer
                 /\ next_action' = "generate_cypher"
         /\ qa_node' = guardrails_edge(next_action')
    /\ UNCHANGED <<cypher_statement, cypher_error, retry_count, retrieved_chunks, io_log>>
    /\ UNCHANGED <<ex_vars, fn_vars, bd_vars>>

\* agents.py:345-369.  cypher_query is bound only inside the try block; when
\* the chain (or extract_cypher) raises, the except clause logs and line 365
\* reads the unbound local: UnboundLocalError leaves the node.
generate_cypher ==
    /\ qa_node = "generate_cypher"
    /\ \/ \E cypher_query \in QueryTexts :
            /\ call_log' = Log("generate_cypher", "ok")
            /\ cypher_statement' = cypher_query
            /\ next_action' = "execute_cypher"
            /\ qa_node' = "execute_cypher"
       \/ /\ call_log' = Log("generate_cypher", "raise")
          /\ qa_node' = "raised"
          /\ UNCHANGED <<cypher_statement, next_action>>
    /\ UNCHANGED <<cypher_error, retry_count, retrieved_chunks, answer, io_log>>
    /\ UNCHANGED <<ex_vars, fn_vars, bd_vars>>

\* a failed execution keeps the error of the first failure in the state
execute_cypher_stale_error ==
    /\ qa_node = "execute_cypher"
    /\ \/ \E rows \in RowSets :
            /\ call_log' = Log("execute_cypher", "ok")
            /\ retrieved_chunks' = rows
            /\ next_action' = "generate_final_answer"
            /\ UNCHANGED <<cypher_error, io_log>>
       \/ \E e \in Errors :
            /\ call_log' = Log("execute_cypher", "raise")
            /\ cypher_error' = IF cypher_error = Unset THEN e ELSE cypher_error
            /\ io_log' = Append(io_log, <<"execute_cypher", cypher_statement, e>>)
            /\ next_action' = "correct_cypher"
            /\ UNCHANGED retrieved_chunks
    /\ qa_node' = execute_edge(next_action')
    /\ UNCHANGED <<cypher_statement, retry_count, answer>>
    /\ UNCHANGED <<ex_vars, fn_vars, bd_vars>>

\* agents.py:371-397
execute_cypher ==
    /\ qa_node = "execute_cypher"
    /\ \/ \E rows \in RowSets :
            /\ call_log' = Log("execute_cypher", "ok")
            /\ retrieved_chunks' = rows
            /\ next_action' = "generate_final_answer"
            /\ UNCHANGED <<cypher_error, io_log>>
       \/ \E e \in Errors :
            /\ call_log' = Log("execute_cypher", "raise")
            /\ cypher_error' = e
            /\ io_log' = Append(io_log, <<"execute_cypher", cypher_statement, e>>)
            /\ next_action' = "correct_cypher"
            /\ UNCHANGED retrieved_chunks
    /\ qa_node' = execute_edge(next_action')
    /\ UNCHANGED <<cypher_statement, retry_count, answer>>
    /\ UNCHANGED <<ex_vars, fn_vars, bd_vars>>

\* a failure of the corrector ends the run without a retry
correct_cypher_gives_up ==
    /\ qa_node = "correct_cypher"
    /\ \E outcome \in QueryTexts \cup {"raise"} :
         /\ call_log' = Log("correct_cypher", IF outcome = "raise" THEN "raise" ELSE "ok")
         /\ io_log' = Append(io_log, <<"correct_cypher", cypher_statement, cypher_error>>)
         /\ IF retry_allowed(retry_count) /\ outcome # "raise"
            THEN /\ retry_count' = retry_count + 1
                 /\ cypher_statement' = outcome
                 /\ next_action' = "execute_cypher"
                 /\ answer' = answer
            ELSE /\ answer' = FailureMessage
                 /\ next_action' = "end"
                 /\ UNCHANGED <<retry_count, cypher_statement>>
         /\ qa_node' = correct_edge(next_action')
    /\ UNCHANGED <<cypher_error, retrieved_chunks>>
    /\ UNCHANGED <<ex_vars, fn_vars, bd_vars>>

\* agents.py:399-437.  The chain is invoked (412-423) before retry_count is
\* read and compared (425-426).
correct_cypher ==
    /\ qa_node = "correct_cypher"
    /\ \E outcome \in QueryTexts \cup {"raise"} :
         LET cypher_query == IF outcome = "raise" THEN "" ELSE outcome IN
         /\ call_log' = Log("correct_cypher", IF outcome = "raise" THEN "raise" ELSE "ok")
         /\ io_log' = Append(io_log, <<"correct_cypher", cypher_statement, cypher_error>>)
         /\ IF retry_allowed(retry_count)
            THEN /\ retry_count' = retry_count + 1
                 /\ cypher_statement' = cypher_query
                 /\ next_action' = "execute_cypher"
                 /\ answer' = answer
            ELSE /\ answer' = FailureMessage
                 /\ next_action' = "end"
                 /\ UNCHANGED <<retry_count, cypher_statement>>
         /\ qa_node' = correct_edge(next_action')
    /\ UNCHANGED <<cypher_error, retrieved_chunks>>
    /\ UNCHANGED <<ex_vars, fn_vars, bd_vars>>

\* agents.py:439-449 and the edge of line 492
generate_final_answer ==
    /\ qa_node = "generate_final_answer"
    /\ qa_node' = "END"
    /\ UNCHANGED <<cypher_statement, cypher_error, retry_count, retrieved_chunks,
                   answer, next_action, call_log, io_log>>
    /\ UNCHANGED <<ex_vars, fn_vars, bd_vars>>

\* no call of a utils.py function is under way
FnIdle ==
    /\ fn_pc = "idle"
    /\ fn_args = <<>>
    /\ fn_result = <<>>

\* no _run_builder call is under way
BuilderIdle ==
    /\ bd_pc = "idle"
    /\ input_path = [kind |-> "none", files |-> <<>>]
    /\ json_files = <<>>
    /\ file_index = 1
    /\ count = [files_processed |-> 0, files_skipped |-> 0]
    /\ tx_writes = <<>>
    /\ committed = <<>>
    /\ file_log = <<>>

\* _run_extraction has not returned
NotReturned == [kind |-> "none", raw_text |-> <<>>, extracted_dset |-> <<>>]

ExtractIdle ==
    /\ ex_node = "idle"
    /\ returned = NotReturned
    /\ raw_text = <<>>
    /\ paragraphs = <<>>
    /\ pending_labels = <<>>
    /\ extracted_dset = <<>>
    /\ current_label = "end_loop"
    /\ step_log = <<>>

QAInit ==
    /\ qa_node = "guardrails"
    /\ cypher_statement = initial_state.cypher_statement
    /\ cypher_error = initial_state.cypher_error
    /\ retry_count = initial_state.retry_count
    /\ retrieved_chunks = initial_state.retrieved_chunks
    /\ answer = initial_state.answer
    /\ next_action = initial_state.next_action
    /\ call_log = <<>>
    /\ io_log = <<>>
    /\ ExtractIdle
    /\ FnIdle
    /\ BuilderIdle

QANext ==
    \/ guardrails
    \/ generate_cypher
    \/ execute_cypher
    \/ correct_cypher
    \/ generate_final_answer

QASpec == QAInit /\ [][QANext]_vars

\* app.invoke runs the graph to its end: a node that can run does run
FairQASpec == QASpec /\ WF_vars(QANext)

-----------------------------------------------------------------------------
(* GCNExtractorAgent: values *)

\* pieces of raw text between blank lines: at most MaxParas of them
MaxParas == 3

\* a piece of the raw text lying between two "\n\n": only whitespace, a
\* well-formed circular header, or other text with surrounding whitespace
Pieces == {" ", "TITLE:..FROM:..", " text "}

\* str.strip() on a piece
strip(p) ==
    CASE p = " " -> ""
      [] p = " text " -> "text"
      [] OTHER -> p

RawTexts == UNION {[1..n -> Pieces] : n \in 0..MaxParas}

\* chains.py:15-24
ALLOWED_PARAGRAPH_LABELS ==
    {"HeaderInformation", "AuthorList", "ScientificContent", "ExternalLinks",
     "ContactInformation", "Acknowledgements", "CitationInstructions", "Correction"}

\* label strings the classifier returns in the model: ParagraphLabelList.labels
\* is a List[str] (chains.py:30-31), so a string outside the vocabulary can
\* come back, the router's own "end_loop" among them
ClassifierLabels ==
    {"HeaderInformation", "AuthorList", "ScientificContent", "ExternalLinks",
     "Subject", "end_loop"}

\* the classifier returns one list of labels, of any length up to one more
\* than the number of paragraphs
LabelLists == UNION {[1..n -> ClassifierLabels] : n \in 0..(MaxParas + 1)}

\* utils.py:88-94: the keys of the record header_regex_match returns
HeaderKeys == <<"circularId", "subject", "createdOn", "submitter", "email">>
\* chains.py:82-84: the keys of AuthorList.model_dump()
AuthorKeys == <<"collaboration", "authors">>
\* agents.py:172 and chains.py:189-199: "intent", then the keys of
\* PhysicalQuantityCategory.model_dump()
ScientificKeys ==
    <<"intent", "position_and_coordinates", "time_and_duration",
      "flux_and_brightness", "spectrum_and_energy",
      "observation_conditions_and_instrument", "distance_and_redshift",
      "extinction_and_absorption", "statistical_significance_and_uncertainty",
      "upper_limit", "source_identification_and_characteristics">>

Range(seq) == {seq[i] : i \in 1..Len(seq)}
HeaderFields == Range(HeaderKeys)
AuthorFields == Range(AuthorKeys)
ScientificFields == Range(ScientificKeys)

\* A dict is the sequence of its <<key, value>> items in insertion order.
DictKeys(d) == [i \in 1..Len(d) |-> d[i][1]]
KeySet(d) == {d[i][1] : i \in 1..Len(d)}
DictGet(d, k, default) ==
    IF k \in KeySet(d)
    THEN d[CHOOSE i \in 1..Len(d) : d[i][1] = k][2]
    ELSE default

\* {**a, **b}: a's items in a's order, each with b's value where b has the
\* key, then b's new items in b's order
\* a key that is already there keeps its value
RECURSIVE DictMerge_first_wins(_, _)
DictMerge_first_wins(a, b) ==
    IF b = <<>> THEN a
    ELSE LET a1 == IF b[1][1] \in KeySet(a) THEN a ELSE Append(a, b[1])
         IN DictMerge_first_wins(a1, Tail(b))

RECURSIVE DictMerge(_, _)
DictMerge(a, b) ==
    IF b = <<>> THEN a
    ELSE LET k == b[1][1]
             v == b[1][2]
             a1 == IF k \in KeySet(a)
                   THEN [i \in 1..Len(a) |-> IF a[i][1] = k THEN <<k, v>> ELSE a[i]]
                   ELSE Append(a, <<k, v>>)
         IN DictMerge(a1, Tail(b))

\* a text is the sequence of its blank-line separated pieces, with the
\* separators: "a\n\nb" is <<"a", "\n\n", "b">>; "" is <<>>
IsBlank(text) == \A i \in 1..Len(text) : strip(text[i]) \in {"", "\n\n"}

\* the loop puts a later paragraph of a tag in front of the earlier ones
RECURSIVE group_loop_prepend(_, _, _)
group_loop_prepend(grouped, paras, tags) ==
    IF paras = <<>> \/ tags = <<>> THEN grouped
    ELSE LET para == paras[1]
             tag == tags[1]
             g1 == IF tag \in KeySet(grouped)
                   THEN [i \in 1..Len(grouped) |->
                           IF grouped[i][1] = tag
                           THEN <<tag, <<para, "\n\n">> \o grouped[i][2]>>
                           ELSE grouped[i]]
                   ELSE Append(grouped, <<tag, <<para>> >>)
         IN group_loop_prepend(g1, Tail(paras), Tail(tags))

\* the paragraphs of a tag are joined by a single newline
RECURSIVE group_loop_single_newline(_, _, _)
group_loop_single_newline(grouped, paras, tags) ==
    IF paras = <<>> \/ tags = <<>> THEN grouped
    ELSE LET para == paras[1]
             tag == tags[1]
             g1 == IF tag \in KeySet(grouped)
                   THEN [i \in 1..Len(grouped) |->
                           IF grouped[i][1] = tag
                           THEN <<tag, grouped[i][2] \o <<"\n", para>> >>
                           ELSE grouped[i]]
                   ELSE Append(grouped, <<tag, <<para>> >>)
         IN group_loop_single_newline(g1, Tail(paras), Tail(tags))

\* utils.py:42-50, the loop of group_paragraphs_by_labels over zip(paragraphs, tags)
RECURSIVE group_loop(_, _, _)
group_loop(grouped, paras, tags) ==
    IF paras = <<>> \/ tags = <<>> THEN grouped
    ELSE LET para == paras[1]
             tag == tags[1]
             g1 == IF tag \in KeySet(grouped)
                   THEN [i \in 1..Len(grouped) |->
                           IF grouped[i][1] = tag
                           THEN <<tag, grouped[i][2] \o <<"\n\n", para>> >>
                           ELSE grouped[i]]
                   ELSE Append(grouped, <<tag, <<para>> >>)
         IN group_loop(g1, Tail(paras), Tail(tags))

\* no length check: zip() stops at the shorter list
group_paragraphs_by_labels_unchecked(paras, tags) ==
    [raised |-> FALSE, grouped |-> group_loop(<<>>, paras, tags)]

\* utils.py:24-50: ValueError when the lengths differ, before any grouping
group_paragraphs_by_labels(paras, tags) ==
    IF Len(paras) # Len(tags)
    THEN [raised |-> TRUE, grouped |-> <<>>]
    ELSE [raised |-> FALSE, grouped |-> group_loop(<<>>, paras, tags)]

\* utils.py:65-69: the field markers of the pattern, in its order
FieldMarkers == <<"TITLE:", "NUMBER:", "SUBJECT:", "DATE:", "FROM:">>

\* regex classes over the tokens of a header text: \s, and . which matches
\* everything except a newline (the pattern is compiled without DOTALL)
IsSpace(t) == t \in {" ", "\n"}
IsDot(t) == t # "\n"

\* str.strip() on a text of tokens
RECURSIVE lstrip(_)
lstrip(text) == IF text # <<>> /\ IsSpace(text[1]) THEN lstrip(Tail(text)) ELSE text
RECURSIVE rstrip(_)
rstrip(text) ==
    IF text # <<>> /\ IsSpace(text[Len(text)])
    THEN rstrip(SubSeq(text, 1, Len(text) - 1))
    ELSE text
StripText(text) == rstrip(lstrip(text))

\* the pattern without its DATE: literal
HeaderPattern_without_date ==
    << <<"lit", "TITLE:">>, <<"ws", "">>, <<"group", "">>, <<"ws", "">>,
       <<"lit", "NUMBER:">>, <<"ws", "">>, <<"group", "">>, <<"ws", "">>,
       <<"lit", "SUBJECT:">>, <<"ws", "">>, <<"group", "">>, <<"ws", "">>,
       <<"ws", "">>, <<"group", "">>, <<"ws", "">>,
       <<"lit", "FROM:">>, <<"ws", "">>, <<"group", "">>, <<"tail", "">> >>

\* utils.py:64-70, read with re.VERBOSE: literals, \s* (greedy), (.*?) (lazy)
\* and the closing (?:\s*\n|$)
HeaderPattern ==
    << <<"lit", "TITLE:">>, <<"ws", "">>, <<"group", "">>, <<"ws", "">>,
       <<"lit", "NUMBER:">>, <<"ws", "">>, <<"group", "">>, <<"ws", "">>,
       <<"lit", "SUBJECT:">>, <<"ws", "">>, <<"group", "">>, <<"ws", "">>,
       <<"lit", "DATE:">>, <<"ws", "">>, <<"group", "">>, <<"ws", "">>,
       <<"lit", "FROM:">>, <<"ws", "">>, <<"group", "">>, <<"tail", "">> >>

NoMatch == [ok |-> FALSE, at |-> 0, groups |-> <<>>]

\* the end of the longest run of whitespace, or of non-newline tokens, from i
SpaceRunEnd(text, i) ==
    CHOOSE j \in i..(Len(text) + 1) :
        /\ \A k \in i..(j - 1) : IsSpace(text[k])
        /\ j = Len(text) + 1 \/ ~IsSpace(text[j])
DotRunEnd(text, i) ==
    CHOOSE j \in i..(Len(text) + 1) :
        /\ \A k \in i..(j - 1) : IsDot(text[k])
        /\ j = Len(text) + 1 \/ ~IsDot(text[j])

\* the backtracking matcher of the re module: match_from matches the pattern
\* from its k-th element at position i; first_match tries the positions
\* j, j + step, ..., stop in that order and keeps the first that succeeds
RECURSIVE match_from(_, _, _)
RECURSIVE first_match(_, _, _, _, _)
first_match(text, k, j, stop, step) ==
    LET r == match_from(text, k, j) IN
    IF r.ok THEN [ok |-> TRUE, at |-> j, groups |-> r.groups]
    ELSE IF j = stop THEN NoMatch
    ELSE first_match(text, k, j + step, stop, step)

match_from(text, k, i) ==
    IF k > Len(HeaderPattern) THEN [ok |-> TRUE, at |-> i, groups |-> <<>>]
    ELSE LET kind == HeaderPattern[k][1] IN
         CASE kind = "lit" ->
                IF i <= Len(text) /\ text[i] = HeaderPattern[k][2]
                THEN match_from(text, k + 1, i + 1)
                ELSE NoMatch
           [] kind = "ws" ->
                \* greedy: the longest run first
                first_match(text, k + 1, SpaceRunEnd(text, i), i, -1)
           [] kind = "group" ->
                \* lazy: the shortest capture first
                LET r == first_match(text, k + 1, i, DotRunEnd(text, i), 1) IN
                IF r.ok
                THEN [ok |-> TRUE, at |-> i,
                      groups |-> <<SubSeq(text, i, r.at - 1)>> \o r.groups]
                ELSE NoMatch
           [] kind = "tail" ->
                \* whitespace up to a newline, or the end of the text
                IF \/ \E j \in i..(SpaceRunEnd(text, i) - 1) : text[j] = "\n"
                   \/ i = Len(text) + 1
                THEN match_from(text, k + 1, i)
                ELSE NoMatch

\* utils.py:72, pattern.search(header): the first start position that matches
pattern_search(header) == first_match(header, 1, 1, Len(header) + 1, 1)

\* the FROM value is never split: no address is recognised
submitter_match_never(from_field) ==
    [matched |-> FALSE, submitter |-> <<>>, email |-> <<>>]

\* utils.py:80, re.fullmatch(r'\s*(.*?)\s*<([^>]+)>\s*', from_field): the lazy
\* group stops at the first "<" from which a non-empty run without ">", a ">"
\* and only whitespace reach the end of the field
submitter_match(from_field) ==
    LET n == Len(from_field)
        closes(p, q) ==
            /\ from_field[q] = ">"
            /\ \A k \in (p + 1)..(q - 1) : from_field[k] # ">"
            /\ \A k \in (q + 1)..n : IsSpace(from_field[k])
        opens == {p \in 1..n : from_field[p] = "<" /\ \E q \in (p + 2)..n : closes(p, q)}
    IN IF opens = {} THEN [matched |-> FALSE, submitter |-> <<>>, email |-> <<>>]
       ELSE LET p == CHOOSE x \in opens : \A y \in opens : x <= y
                q == CHOOSE x \in (p + 2)..n : closes(p, x)
            IN [matched |-> TRUE,
                submitter |-> SubSeq(from_field, 1, p - 1),
                email |-> SubSeq(from_field, p + 1, q - 1)]

\* utils.py:53-94: ValueError when the pattern is not found, else the record
header_regex_match(header) ==
    LET match == pattern_search(header) IN
    IF ~match.ok THEN [raised |-> TRUE, record |-> <<>>]
    ELSE LET number == match.groups[2]
             subject == match.groups[3]
             date == match.groups[4]
             from_field == match.groups[5]
             sm == submitter_match(from_field)
             submitter == IF sm.matched THEN StripText(sm.submitter)
                          ELSE StripText(from_field)
             email == IF sm.matched THEN StripText(sm.email) ELSE <<>>
         IN [raised |-> FALSE,
             record |-> << <<"circularId", StripText(number)>>,
                           <<"subject", StripText(subject)>>,
                           <<"createdOn", StripText(date)>>,
                           <<"submitter", submitter>>,
                           <<"email", email>> >>]

\* the text of a header given as lines <<marker, value>>: in the plain layout
\* the lines are joined by newlines; in the indented layout of
\* tests/test_utils.py:21-27 the text starts with a newline, every line is
\* indented and the text ends with a newline and an indent
RECURSIVE render_lines(_, _)
render_lines(lines, layout) ==
    IF lines = <<>> THEN <<>>
    ELSE (IF layout = "indented" THEN <<" ">> ELSE <<>>)
         \o <<lines[1][1]>> \o lines[1][2]
         \o (IF Len(lines) > 1 \/ layout = "indented" THEN <<"\n">> ELSE <<>>)
         \o render_lines(Tail(lines), layout)
render_header(lines, layout) ==
    (IF layout = "indented" THEN <<"\n">> ELSE <<>>)
    \o render_lines(lines, layout)
    \o (IF layout = "indented" THEN <<" ">> ELSE <<>>)

\* the header of section 8 of the specification and of tests/test_utils.py
SampleHeader ==
    << <<"TITLE:", <<" ", "GCN", " ", "CIRCULAR">> >>,
       <<"NUMBER:", <<" ", "12345">> >>,
       <<"SUBJECT:", <<" ", "X">> >>,
       <<"DATE:", <<" ", "D">> >>,
       <<"FROM:", <<" ", "Name", " ", "<", "e@x.com", ">">> >> >>

\* the tokens of a piece of text, and of a text made of pieces
PieceTokens(p) ==
    CASE p = "TITLE:..FROM:.." -> render_header(SampleHeader, "plain")
      [] p = "\n\n" -> <<"\n", "\n">>
      [] p = " text " -> <<" ", "text", " ">>
      [] OTHER -> <<p>>
RECURSIVE Tokens(_)
Tokens(text) == IF text = <<>> THEN <<>> ELSE PieceTokens(text[1]) \o Tokens(Tail(text))

\* the characters of a raw text given by its pieces: the pieces with a blank
\* line between them
RECURSIVE RawTokens(_)
RawTokens(text) ==
    IF text = <<>> THEN <<>>
    ELSE IF Len(text) = 1 THEN PieceTokens(text[1])
    ELSE PieceTokens(text[1]) \o <<"\n", "\n">> \o RawTokens(Tail(text))

\* utils.py:19: re.sub(r'\n\s*\n', '\n\n', raw_text).  Matches are found left
\* to right; one starts at a newline and, \s* being greedy, ends at the last
\* newline that only whitespace separates from it.
BlankLineEnds(text, i) ==
    {k \in (i + 1)..Len(text) : text[k] = "\n" /\ \A j \in (i + 1)..k : IsSpace(text[j])}
RECURSIVE collapse_blank_lines(_)
collapse_blank_lines(text) ==
    LET starts == {i \in 1..Len(text) : text[i] = "\n" /\ BlankLineEnds(text, i) # {}}
    IN IF starts = {} THEN text
       ELSE LET first == CHOOSE i \in starts : \A m \in starts : i <= m
                ends == BlankLineEnds(text, first)
                last == CHOOSE k \in ends : \A m \in ends : m <= k
            IN SubSeq(text, 1, first - 1) \o <<"\n", "\n">>
                 \o collapse_blank_lines(SubSeq(text, last + 1, Len(text)))

\* utils.py:20: cleaned_text.split("\n\n"), cut at each "\n\n" from the left
RECURSIVE split_on_blank_line(_)
split_on_blank_line(text) ==
    LET seps == {i \in 1..(Len(text) - 1) : text[i] = "\n" /\ text[i + 1] = "\n"}
    IN IF seps = {} THEN <<text>>
       ELSE LET first == CHOOSE i \in seps : \A m \in seps : i <= m
            IN <<SubSeq(text, 1, first - 1)>>
                 \o split_on_blank_line(SubSeq(text, first + 2, Len(text)))

\* the stripped pieces, the empty ones too
split_text_into_paragraphs_keep_empty(text) ==
    LET cleaned_text == collapse_blank_lines(text)
        pieces == split_on_blank_line(cleaned_text)
    IN [i \in 1..Len(pieces) |-> StripText(pieces[i])]

\* utils.py:9-22, on the characters of the text
split_text_into_paragraphs(text) ==
    LET cleaned_text == collapse_blank_lines(text)
        pieces == split_on_blank_line(cleaned_text)
        stripped == [i \in 1..Len(pieces) |-> StripText(pieces[i])]
    IN SelectSeq(stripped, LAMBDA q : q # <<>>)

\* the paragraph a segment of tokens spells
ParagraphOf(segment) ==
    IF segment = <<>> THEN ""
    ELSE CHOOSE q \in {strip(piece) : piece \in Pieces} : PieceTokens(q) = segment

\* agents.py:39: the paragraphs text_split gets for each raw text of the model
SplitParagraphs ==
    [text \in RawTexts |->
        LET segments == split_text_into_paragraphs(RawTokens(text))
        IN [i \in 1..Len(segments) |-> ParagraphOf(segments[i])] \o <<>>] @@ <<>>

\* utils.py:64-75: the pattern is searched for anywhere in the text
header_matches(text) == ~header_regex_match(Tokens(text)).raised

\* the value an extractor writes under a field: the label that wrote it
\* (retain_original_text writes the paragraph text itself)
FieldsOf(keys, label) == [i \in 1..Len(keys) |-> <<keys[i], <<label>> >>]

\* agents.py:215: current_label[:1].lower() + current_label[1:]
retained_key(label) ==
    CASE label = "ExternalLinks" -> "externalLinks"
      [] label = "ContactInformation" -> "contactInformation"
      [] label = "Acknowledgements" -> "acknowledgements"
      [] label = "CitationInstructions" -> "citationInstructions"
      [] label = "Correction" -> "correction"
      [] label = "Subject" -> "subject"
      [] label = "HeaderInformation" -> "headerInformation"
      [] label = "AuthorList" -> "authorList"
      [] label = "ScientificContent" -> "scientificContent"
      [] OTHER -> label

StepLog(node, label, result) == Append(step_log, <<node, label, result>>)

-----------------------------------------------------------------------------
(* GCNExtractorAgent: nodes *)

\* agents.py:30-64.  The log keeps, in the label column, the number of labels
\* the classifier returned.
text_split ==
    /\ ex_node = "text_split"
    /\ LET paras == SplitParagraphs[raw_text] IN
       IF paras = <<>>
       THEN /\ step_log' = StepLog("text_split", "", "no_paragraphs")
            /\ ex_node' = "raised"
            /\ UNCHANGED <<paragraphs, pending_labels>>
       ELSE \/ /\ step_log' = StepLog("text_split", "", "classifier_raise")
               /\ ex_node' = "raised"
               /\ UNCHANGED <<paragraphs, pending_labels>>
            \/ \E labels \in LabelLists :
                 LET result == group_paragraphs_by_labels(paras, labels)
                     labeled_paragraphs == result.grouped IN
                 IF result.raised
                 THEN /\ step_log' = StepLog("text_split", ToString(Len(labels)),
                                              "length_mismatch")
                      /\ ex_node' = "raised"
                      /\ UNCHANGED <<paragraphs, pending_labels>>
                 ELSE /\ step_log' = StepLog("text_split", ToString(Len(labels)), "ok")
                      /\ paragraphs' = labeled_paragraphs
                      /\ pending_labels' = DictKeys(labeled_paragraphs)
                      /\ ex_node' = "router_node"
    /\ UNCHANGED <<raw_text, extracted_dset, current_label>>
    /\ UNCHANGED <<returned, qa_vars, fn_vars, bd_vars>>

\* a label outside the vocabulary is sent to the header step
router_edge_unknown_to_header(label) ==
    LET key == IF label \in ALLOWED_PARAGRAPH_LABELS \/ label = "end_loop"
               THEN label ELSE "Unknown" IN
    CASE key = "HeaderInformation" -> "extract_header_information"
      [] key = "AuthorList" -> "extract_author_list"
      [] key = "ScientificContent" -> "extract_scientific_content"
      [] key = "end_loop" -> "END"
      [] key = "Unknown" -> "extract_header_information"
      [] OTHER -> "retain_original_text"

\* agents.py:253-268: the conditional edge after router_node
router_edge(label) ==
    LET key == IF label \in ALLOWED_PARAGRAPH_LABELS \/ label = "end_loop"
               THEN label ELSE "Unknown" IN
    CASE key = "HeaderInformation" -> "extract_header_information"
      [] key = "AuthorList" -> "extract_author_list"
      [] key = "ScientificContent" -> "extract_scientific_content"
      [] key = "end_loop" -> "END"
      [] OTHER -> "retain_original_text"

\* agents.py:66-80
router_node ==
    /\ ex_node = "router_node"
    /\ current_label' = IF pending_labels = <<>> THEN "end_loop" ELSE pending_labels[1]
    /\ ex_node' = router_edge(current_label')
    /\ UNCHANGED <<raw_text, paragraphs, pending_labels, extracted_dset, step_log>>
    /\ UNCHANGED <<returned, qa_vars, fn_vars, bd_vars>>

\* the last entry is removed, not the head
Rest_pop_last(labels) ==
    IF labels = <<>> THEN <<>> ELSE SubSeq(labels, 1, Len(labels) - 1)

\* pending_labels[1:]
Rest(labels) == IF labels = <<>> THEN <<>> ELSE Tail(labels)

\* agents.py:84-111
extract_header_information ==
    /\ ex_node = "extract_header_information"
    /\ LET paragraph == DictGet(paragraphs, "HeaderInformation", <<>>) IN
       IF IsBlank(paragraph) \/ ~header_matches(paragraph)
       THEN /\ step_log' = StepLog("extract_header_information", current_label, "raise")
            /\ ex_node' = "raised"
            /\ UNCHANGED <<extracted_dset, pending_labels>>
       ELSE /\ step_log' = StepLog("extract_header_information", current_label, "ok")
            /\ extracted_dset' = DictMerge(extracted_dset,
                                          header_regex_match(Tokens(paragraph)).record)
            /\ pending_labels' = Rest(pending_labels)
            /\ ex_node' = "router_node"
    /\ UNCHANGED <<raw_text, paragraphs, current_label>>
    /\ UNCHANGED <<returned, qa_vars, fn_vars, bd_vars>>

\* a failure of ParseAuthorshipChain is logged and re-raised
extract_author_list_reraise ==
    /\ ex_node = "extract_author_list"
    /\ LET paragraph == DictGet(paragraphs, "AuthorList", <<>>) IN
       IF IsBlank(paragraph)
       THEN /\ step_log' = StepLog("extract_author_list", current_label, "skip")
            /\ pending_labels' = Rest(pending_labels)
            /\ ex_node' = "router_node"
            /\ UNCHANGED extracted_dset
       ELSE \/ /\ step_log' = StepLog("extract_author_list", current_label, "fail")
               /\ ex_node' = "raised"
               /\ UNCHANGED <<extracted_dset, pending_labels>>
            \/ /\ step_log' = StepLog("extract_author_list", current_label, "ok")
               /\ extracted_dset' =
                    DictMerge(extracted_dset, FieldsOf(AuthorKeys, "AuthorList"))
               /\ pending_labels' = Rest(pending_labels)
               /\ ex_node' = "router_node"
    /\ UNCHANGED <<raw_text, paragraphs, current_label>>
    /\ UNCHANGED <<returned, qa_vars, fn_vars, bd_vars>>

\* a failure of ParseAuthorshipChain leaves a collaboration field behind
extract_author_list_partial ==
    /\ ex_node = "extract_author_list"
    /\ LET paragraph == DictGet(paragraphs, "AuthorList", <<>>) IN
       IF IsBlank(paragraph)
       THEN /\ step_log' = StepLog("extract_author_list", current_label, "skip")
            /\ UNCHANGED extracted_dset
       ELSE \/ /\ step_log' = StepLog("extract_author_list", current_label, "fail")
               /\ extracted_dset' =
                    DictMerge(extracted_dset, << <<"collaboration", <<"AuthorList">> >> >>)
            \/ /\ step_log' = StepLog("extract_author_list", current_label, "ok")
               /\ extracted_dset' =
                    DictMerge(extracted_dset, FieldsOf(AuthorKeys, "AuthorList"))
    /\ pending_labels' = Rest(pending_labels)
    /\ ex_node' = "router_node"
    /\ UNCHANGED <<raw_text, paragraphs, current_label>>
    /\ UNCHANGED <<returned, qa_vars, fn_vars, bd_vars>>

\* agents.py:113-146
extract_author_list ==
    /\ ex_node = "extract_author_list"
    /\ LET paragraph == DictGet(paragraphs, "AuthorList", <<>>) IN
       IF IsBlank(paragraph)
       THEN /\ step_log' = StepLog("extract_author_list", current_label, "skip")
            /\ UNCHANGED extracted_dset
       ELSE \/ /\ step_log' = StepLog("extract_author_list", current_label, "fail")
               /\ UNCHANGED extracted_dset
            \/ /\ step_log' = StepLog("extract_author_list", current_label, "ok")
               /\ extracted_dset' =
                    DictMerge(extracted_dset, FieldsOf(AuthorKeys, "AuthorList"))
    /\ pending_labels' = Rest(pending_labels)
    /\ ex_node' = "router_node"
    /\ UNCHANGED <<raw_text, paragraphs, current_label>>
    /\ UNCHANGED <<returned, qa_vars, fn_vars, bd_vars>>

\* agents.py:149-195: a failure of either chain is logged and re-raised
extract_scientific_content ==
    /\ ex_node = "extract_scientific_content"
    /\ LET paragraph == DictGet(paragraphs, "ScientificContent", <<>>) IN
       IF IsBlank(paragraph)
       THEN /\ step_log' = StepLog("extract_scientific_content", current_label, "skip")
            /\ pending_labels' = Rest(pending_labels)
            /\ ex_node' = "router_node"
            /\ UNCHANGED extracted_dset
       ELSE \/ \E chain \in {"ReportLabelerChain", "PhysicalQuantityExtractorChain"} :
                 /\ step_log' = StepLog("extract_scientific_content", current_label, "raise")
                 /\ ex_node' = "raised"
                 /\ UNCHANGED <<extracted_dset, pending_labels>>
            \/ /\ step_log' = StepLog("extract_scientific_content", current_label, "ok")
               /\ extracted_dset' =
                    DictMerge(extracted_dset, FieldsOf(ScientificKeys, "ScientificContent"))
               /\ pending_labels' = Rest(pending_labels)
               /\ ex_node' = "router_node"
    /\ UNCHANGED <<raw_text, paragraphs, current_label>>
    /\ UNCHANGED <<returned, qa_vars, fn_vars, bd_vars>>

\* agents.py:198-225
retain_original_text ==
    /\ ex_node = "retain_original_text"
    /\ LET paragraph == DictGet(paragraphs, current_label, <<>>) IN
       IF IsBlank(paragraph)
       THEN /\ step_log' = StepLog("retain_original_text", current_label, "skip")
            /\ UNCHANGED extracted_dset
       ELSE /\ step_log' = StepLog("retain_original_text", current_label, "ok")
            /\ extracted_dset' =
                 DictMerge(extracted_dset, << <<retained_key(current_label), paragraph>> >>)
    /\ pending_labels' = Rest(pending_labels)
    /\ ex_node' = "router_node"
    /\ UNCHANGED <<raw_text, paragraphs, current_label>>
    /\ UNCHANGED <<returned, qa_vars, fn_vars, bd_vars>>

QAIdle ==
    /\ qa_node = "idle"
    /\ cypher_statement = initial_state.cypher_statement
    /\ cypher_error = initial_state.cypher_error
    /\ retry_count = initial_state.retry_count
    /\ retrieved_chunks = initial_state.retrieved_chunks
    /\ answer = initial_state.answer
    /\ next_action = initial_state.next_action
    /\ call_log = <<>>
    /\ io_log = <<>>

\* agents.py:18-26 (the defaults of CircularState) and core.py:62
ExtractInit ==
    /\ ex_node = "text_split"
    /\ raw_text \in RawTexts
    /\ paragraphs = <<>>
    /\ pending_labels = <<>>
    /\ extracted_dset = <<>>
    /\ current_label = "end_loop"
    /\ step_log = <<>>
    /\ returned = NotReturned
    /\ QAIdle
    /\ FnIdle
    /\ BuilderIdle

ExtractNext ==
    \/ text_split
    \/ router_node
    \/ extract_header_information
    \/ extract_author_list
    \/ extract_scientific_content
    \/ retain_original_text

ExtractSpec == ExtractInit /\ [][ExtractNext]_vars

-----------------------------------------------------------------------------
(* _run_extraction (core.py:16-68): the extraction workflow and its caller *)

\* core.py:43 and 66: the empty dict returned on a failure
EmptyDict == [kind |-> "empty", raw_text |-> <<>>, extracted_dset |-> <<>>]

\* an exception that leaves _run_extraction
Propagated == [kind |-> "exception", raw_text |-> <<>>, extracted_dset |-> <<>>]

\* the final state without the raw text
FinalState_without_text ==
    [kind |-> "state", raw_text |-> <<>>, extracted_dset |-> extracted_dset]

\* core.py:63 and 68: the final state of the workflow
FinalState == [kind |-> "state", raw_text |-> raw_text, extracted_dset |-> extracted_dset]

RunExtractionInit ==
    /\ ex_node = "read_text"
    /\ raw_text \in RawTexts
    /\ paragraphs = <<>>
    /\ pending_labels = <<>>
    /\ extracted_dset = <<>>
    /\ current_label = "end_loop"
    /\ step_log = <<>>
    /\ returned = NotReturned
    /\ QAIdle
    /\ FnIdle
    /\ BuilderIdle

\* core.py:38-55: the input file is read inside a try; llm_client.basicConfig
\* is called outside any try
read_text ==
    /\ ex_node = "read_text"
    /\ \E outcome \in {"read_failed", "config_raised", "ok"} :
         /\ step_log' = StepLog("read_text", "", outcome)
         /\ CASE outcome = "read_failed" -> returned' = EmptyDict /\ ex_node' = "done"
              [] outcome = "config_raised" -> returned' = Propagated /\ ex_node' = "done"
              [] outcome = "ok" -> UNCHANGED returned /\ ex_node' = "text_split"
    /\ UNCHANGED <<raw_text, paragraphs, pending_labels, extracted_dset, current_label>>
    /\ UNCHANGED <<qa_vars, fn_vars, bd_vars>>

\* whatever way the workflow ended, its state is returned
return_result_always_state ==
    /\ ex_node \in {"END", "raised"}
    /\ returned = NotReturned
    /\ returned' = FinalState
    /\ UNCHANGED <<ex_node, raw_text, paragraphs, pending_labels, extracted_dset,
                   current_label, step_log>>
    /\ UNCHANGED <<qa_vars, fn_vars, bd_vars>>

\* core.py:57-68: an exception of app.invoke is caught and {} returned; the
\* final state is returned otherwise
return_result ==
    /\ ex_node \in {"END", "raised"}
    /\ returned = NotReturned
    /\ returned' = IF ex_node = "raised" THEN EmptyDict ELSE FinalState
    /\ UNCHANGED <<ex_node, raw_text, paragraphs, pending_labels, extracted_dset,
                   current_label, step_log>>
    /\ UNCHANGED <<qa_vars, fn_vars, bd_vars>>

RunExtractionNext ==
    \/ read_text
    \/ ExtractNext
    \/ return_result

RunExtractionSpec == RunExtractionInit /\ [][RunExtractionNext]_vars

-----------------------------------------------------------------------------
(* A call of group_paragraphs_by_labels (utils.py:24-50) *)

\* paragraphs and tags of the call, as in tests/test_utils.py:10-17, and a
\* paragraph of several lines
GroupParagraphs == {"Intro", "Methods", "Results", "TITLE:..FROM:.."}
GroupTags == {"A", "B", "C"}

GroupInit ==
    /\ fn_pc = "call"
    /\ fn_args \in (UNION {[1..n -> GroupParagraphs] : n \in 0..MaxParas})
                  \X (UNION {[1..n -> GroupTags] : n \in 0..MaxParas})
    /\ fn_result = <<>>
    /\ QAIdle
    /\ ExtractIdle
    /\ BuilderIdle

call_group_paragraphs_by_labels ==
    /\ fn_pc = "call"
    /\ fn_result' = group_paragraphs_by_labels(fn_args[1], fn_args[2])
    /\ fn_pc' = "done"
    /\ UNCHANGED <<fn_args, qa_vars, ex_vars, bd_vars>>

GroupNext == call_group_paragraphs_by_labels

GroupSpec == GroupInit /\ [][GroupNext]_vars

-----------------------------------------------------------------------------
(* A call of split_text_into_paragraphs (utils.py:9-22) *)

\* the length of the texts split, in characters
MaxTextLen == 6

\* the characters of a text: two words, a blank and a newline
SplitTokens == {"A", "B", " ", "\n"}

SplitInit ==
    /\ fn_pc = "call"
    /\ fn_args \in {<<text>> : text \in UNION {[1..n -> SplitTokens] : n \in 0..MaxTextLen}}
    /\ fn_result = <<>>
    /\ QAIdle
    /\ ExtractIdle
    /\ BuilderIdle

call_split_text_into_paragraphs ==
    /\ fn_pc = "call"
    /\ fn_result' = split_text_into_paragraphs(fn_args[1])
    /\ fn_pc' = "done"
    /\ UNCHANGED <<fn_args, qa_vars, ex_vars, bd_vars>>

SplitNext == call_split_text_into_paragraphs

SplitSpec == SplitInit /\ [][SplitNext]_vars

-----------------------------------------------------------------------------
(* A call of header_regex_match (utils.py:53-94), alone or in an extraction run *)

\* the number of lines of a header whose fields come in any order
MaxHeaderLines == 5

Layouts == {"plain", "indented"}

\* the value written after a field marker: empty, plain, padded, two words
FieldValues(word) ==
    {<<>>, <<" ", word>>, <<" ", " ", word, " ">>, <<word, " ", "etc">>}

\* the value written after FROM:
FromValues ==
    {<<>>,
     <<" ", "Name">>,
     <<" ", "Name", " ">>,
     <<" ", "Name", " ", "<", "e@x.com", ">">>,
     <<"Name", "<", "e@x.com", ">", " ">>,
     <<" ", "<", "e@x.com", ">">>,
     <<" ", "First", " ", "Name", " ", " ", "<", " ", "e@x.com", " ", ">">>,
     <<" ", "Name", " ", "<", "a", ">", " ", "<", "e@x.com", ">">>,
     <<" ", "Name", " ", "<", ">">>,
     <<" ", "Name", " ", "<", "e@x.com">>,
     <<" ", "Name", " ", "<", "e@x.com", ">", " ", "Jr">>}

\* headers with the five fields, each on its own line, in the order required
WellFormedHeaders ==
    {<< <<"TITLE:", t>>, <<"NUMBER:", n>>, <<"SUBJECT:", x>>, <<"DATE:", d>>,
        <<"FROM:", f>> >> :
        t \in FieldValues("GCN"), n \in FieldValues("12345"),
        x \in FieldValues("X"), d \in FieldValues("D"), f \in FromValues}

\* headers made of the sample's lines, any of them, in any order
AnyOrderHeaders == UNION {[1..n -> Range(SampleHeader)] : n \in 0..MaxHeaderLines}

HeaderCallInit ==
    /\ fn_pc = "call"
    /\ fn_args \in {<<h, y>> : h \in WellFormedHeaders, y \in Layouts}
                   \cup {<<h, "plain">> : h \in AnyOrderHeaders}
    /\ fn_result = <<>>
    /\ QAIdle
    /\ ExtractIdle
    /\ BuilderIdle

call_header_regex_match ==
    /\ fn_pc = "call"
    /\ fn_result' = header_regex_match(render_header(fn_args[1], fn_args[2]))
    /\ fn_pc' = "done"
    /\ UNCHANGED <<fn_args, qa_vars, ex_vars, bd_vars>>

\* the parser is called on a header text, or by the header extractor of an
\* extraction run
HeaderInit == HeaderCallInit \/ ExtractInit

HeaderNext == call_header_regex_match \/ ExtractNext

HeaderSpec == HeaderInit /\ [][HeaderNext]_vars

-----------------------------------------------------------------------------
(* Graph ingestion: _run_builder (core.py:71-141) *)

\* the number of JSON files found under a directory
MaxFiles == 3

\* the number of distinct circular ids among the payloads
NumCircularIds == 2

\* a key the extracted_dset of a payload lacks
Absent == <<"<absent>">>
\* Python's None
NoneValue == <<"None">>

\* the extracted_dset of a payload, with the keys build_cypher_statements
\* reads; a key whose value is Absent is left out
Dset(circularId, subject, collaboration, authors) ==
    LET item(k, v) == IF v = Absent THEN <<>> ELSE << <<k, v>> >>
    IN item("circularId", circularId) \o item("subject", subject)
         \o item("collaboration", collaboration) \o item("authors", authors)

CircularIds == {<<"4" \o ToString(i)>> : i \in 1..NumCircularIds}
\* chains.py:83: AuthorList.collaboration is a string, "null" by default
CollaborationValues == {<<"">>, <<"null">>, <<"Fermi-GBM">>}
\* chains.py:84: AuthorList.authors is a list, empty by default
AuthorsValues == {<<>>, <<"A. Author">>, <<"A. Author", "B. Author">>}

\* the payloads build_cypher_statements is given: extraction results with
\* any of the keys missing, and a payload that is not a mapping
Payloads ==
    {[kind |-> "dict", extracted_dset |-> Dset(id, subject, collaboration, authors)] :
        id \in CircularIds \cup {Absent}, subject \in {<<"GRB">>, Absent},
        collaboration \in CollaborationValues \cup {Absent},
        authors \in AuthorsValues \cup {Absent}}
    \cup {[kind |-> "not_a_dict", extracted_dset |-> <<>>]}

\* what a JSON file holds: a file that cannot be read, text that is not
\* JSON, an empty payload, a payload that is not a mapping, or an extraction
\* result with or without a collaboration and authors
Files ==
    {[kind |-> k, extracted_dset |-> <<>>] :
        k \in {"unreadable", "invalid_json", "empty", "not_a_dict"}}
    \cup {[kind |-> "dict",
           extracted_dset |-> Dset(<<"41">>, <<"GRB">>, collaboration, authors)] :
              collaboration \in {<<"">>, <<"Fermi-GBM">>},
              authors \in {<<>>, <<"A. Author">>}}

\* core.py:88-108: what input_path names
InputPaths ==
    {[kind |-> k, files |-> <<>>] : k \in {"other_file", "missing", "error"}}
    \cup {[kind |-> "json_file", files |-> <<f>>] : f \in Files}
    \cup {[kind |-> "dir", files |-> fs] : fs \in UNION {[1..n -> Files] : n \in 0..MaxFiles}}

\* the truth value Python gives a string or a list: empty ones are false
Truthy(value) == value \notin {<<>>, <<"">>}

\* a collaboration named "null" is taken for no collaboration
build_cypher_statements_null_as_empty(data) ==
    IF data.kind # "dict" THEN [raised |-> TRUE, statements |-> <<>>]
    ELSE LET dset == data.extracted_dset
             circularId == DictGet(dset, "circularId", NoneValue)
             collaboration == DictGet(dset, "collaboration", <<"">>)
             authors == DictGet(dset, "authors", <<>>)
         IN [raised |-> FALSE,
             statements |->
               << <<"CIRCULAR", << <<"circularId", circularId>> >> >> >>
               \o (IF Truthy(collaboration) /\ collaboration # <<"null">>
                   THEN << <<"COLLABORATION", << <<"circularId", circularId>> >> >> >>
                   ELSE <<>>)
               \o (IF Truthy(authors)
                   THEN << <<"AUTHORS", << <<"circularId", circularId>> >> >> >>
                   ELSE <<>>)]

\* utils.py:97-230.  A statement is <<query, parameters>>; the query is named
\* by the node it writes: "CIRCULAR" (112-134), "COLLABORATION" (137-156),
\* "AUTHORS" (159-184).  A payload without .get raises.
build_cypher_statements(data) ==
    IF data.kind # "dict" THEN [raised |-> TRUE, statements |-> <<>>]
    ELSE LET dset == data.extracted_dset
             circularId == DictGet(dset, "circularId", NoneValue)
             collaboration == DictGet(dset, "collaboration", <<"">>)
             authors == DictGet(dset, "authors", <<>>)
             circular_para ==
                 << <<"circularId", circularId>>,
                    <<"subject", DictGet(dset, "subject", NoneValue)>>,
                    <<"ingestedBy", <<"AI4GCNpy">> >> >>
             collab_para ==
                 << <<"circularId", circularId>>,
                    <<"collaborationName", collaboration>>,
                    <<"ingestedBy", <<"AI4GCNpy">> >> >>
             author_para ==
                 << <<"circularId", circularId>>,
                    <<"collaborationName", collaboration>>,
                    <<"authors", authors>>,
                    <<"ingestedBy", <<"AI4GCNpy">> >> >>
         IN [raised |-> FALSE,
             statements |->
               << <<"CIRCULAR", circular_para>> >>
               \o (IF Truthy(collaboration)
                   THEN << <<"COLLABORATION", collab_para>> >> ELSE <<>>)
               \o (IF Truthy(authors)
                   THEN << <<"AUTHORS", author_para>> >> ELSE <<>>)]

\* the transaction scope of the graph store adapter: the writes run in the
\* scope are committed when the scope is left normally and dropped when an
\* exception leaves it
transaction_exit(writes, exception) == IF exception THEN <<>> ELSE writes

BuilderInit ==
    /\ bd_pc = "resolve"
    /\ input_path \in InputPaths
    /\ json_files = <<>>
    /\ file_index = 1
    /\ count = [files_processed |-> 0, files_skipped |-> 0]
    /\ tx_writes = <<>>
    /\ committed = <<>>
    /\ file_log = <<>>
    /\ QAIdle
    /\ ExtractIdle
    /\ FnIdle

\* core.py:88-108
resolve_input_path ==
    /\ bd_pc = "resolve"
    /\ IF input_path.kind \in {"json_file", "dir"}
       THEN /\ json_files' = input_path.files
            /\ bd_pc' = "connect"
       ELSE /\ bd_pc' = "returned"
            /\ UNCHANGED json_files
    /\ UNCHANGED <<input_path, file_index, count, tx_writes, committed, file_log>>
    /\ UNCHANGED <<qa_vars, ex_vars, fn_vars>>

\* core.py:111-112: GCNGraphDB() raises ValueError when the store cannot be
\* reached (db_client.py:50-58), outside any try
open_transaction ==
    /\ bd_pc = "connect"
    /\ \E connected \in BOOLEAN :
         bd_pc' = IF connected THEN "loop" ELSE "raised"
    /\ UNCHANGED <<input_path, json_files, file_index, count, tx_writes, committed,
                   file_log>>
    /\ UNCHANGED <<qa_vars, ex_vars, fn_vars>>

\* a skipped file is logged but not counted
Skip_uncounted(outcome) ==
    /\ count' = count
    /\ file_log' = Append(file_log, <<file_index, outcome>>)

\* core.py:119, 124, 134: the file is counted as skipped
Skip(outcome) ==
    /\ count' = [count EXCEPT !.files_skipped = @ + 1]
    /\ file_log' = Append(file_log, <<file_index, outcome>>)

\* a file that cannot be read or parsed, or is empty, ends the loop
process_file_stop_on_skip ==
    /\ bd_pc = "loop"
    /\ file_index <= Len(json_files)
    /\ LET json_file == json_files[file_index]
           built == build_cypher_statements(json_file)
       IN IF json_file.kind \in {"unreadable", "invalid_json", "empty"}
          THEN /\ Skip(json_file.kind)
               /\ bd_pc' = "close"
               /\ UNCHANGED <<tx_writes, file_index>>
          ELSE /\ file_index' = file_index + 1
               /\ bd_pc' = "loop"
               /\ IF built.raised
                  THEN Skip("build_failed") /\ UNCHANGED tx_writes
                  ELSE \E k \in 0..Len(built.statements) :
                         /\ tx_writes' = tx_writes \o
                              [j \in 1..k |-> <<file_index, built.statements[j]>>]
                         /\ IF k < Len(built.statements)
                            THEN Skip("run_failed")
                            ELSE /\ count' = [count EXCEPT !.files_processed = @ + 1]
                                 /\ file_log' = Append(file_log, <<file_index, "processed">>)
    /\ UNCHANGED <<input_path, json_files, committed>>
    /\ UNCHANGED <<qa_vars, ex_vars, fn_vars>>

\* core.py:113-136, one iteration of the loop over json_files; tx.run may
\* fail at any statement, after k of the file's statements have run
process_file ==
    /\ bd_pc = "loop"
    /\ file_index <= Len(json_files)
    /\ LET json_file == json_files[file_index]
           built == build_cypher_statements(json_file)
       IN IF json_file.kind \in {"unreadable", "invalid_json", "empty"}
          THEN Skip(json_file.kind) /\ UNCHANGED tx_writes
          ELSE IF built.raised
          THEN Skip("build_failed") /\ UNCHANGED tx_writes
          ELSE \E k \in 0..Len(built.statements) :
                 /\ tx_writes' = tx_writes \o
                      [j \in 1..k |-> <<file_index, built.statements[j]>>]
                 /\ IF k < Len(built.statements)
                    THEN Skip("run_failed")
                    ELSE /\ count' = [count EXCEPT !.files_processed = @ + 1]
                         /\ file_log' = Append(file_log, <<file_index, "processed">>)
    /\ file_index' = file_index + 1
    /\ UNCHANGED <<bd_pc, input_path, json_files, committed>>
    /\ UNCHANGED <<qa_vars, ex_vars, fn_vars>>

\* core.py:138: the loop is over and the scope is left without an exception
leave_transaction ==
    /\ bd_pc = "loop"
    /\ file_index > Len(json_files)
    /\ committed' = transaction_exit(tx_writes, FALSE)
    /\ bd_pc' = "close"
    /\ UNCHANGED <<input_path, json_files, file_index, count, tx_writes, file_log>>
    /\ UNCHANGED <<qa_vars, ex_vars, fn_vars>>

\* core.py:139-141
close_and_return ==
    /\ bd_pc = "close"
    /\ bd_pc' = "returned"
    /\ UNCHANGED <<input_path, json_files, file_index, count, tx_writes, committed,
                   file_log>>
    /\ UNCHANGED <<qa_vars, ex_vars, fn_vars>>

BuilderNext ==
    \/ resolve_input_path
    \/ open_transaction
    \/ process_file
    \/ leave_transaction
    \/ close_and_return

BuilderSpec == BuilderInit /\ [][BuilderNext]_vars

-----------------------------------------------------------------------------
(* A call of build_cypher_statements (utils.py:97-230) *)

CypherInit ==
    /\ fn_pc = "call"
    /\ fn_args \in {<<data>> : data \in Payloads}
    /\ fn_result = <<>>
    /\ QAIdle
    /\ ExtractIdle
    /\ BuilderIdle

call_build_cypher_statements ==
    /\ fn_pc = "call"
    /\ fn_result' = build_cypher_statements(fn_args[1])
    /\ fn_pc' = "done"
    /\ UNCHANGED <<fn_args, qa_vars, ex_vars, bd_vars>>

CypherNext == call_build_cypher_statements

CypherSpec == CypherInit /\ [][CypherNext]_vars

-----------------------------------------------------------------------------
(* Properties of a query run *)

RunOver == qa_node \in {"END", "raised"}
GuardrailAccepted ==
    /\ call_log # <<>>
    /\ call_log[1][1] = "guardrails"
    /\ call_log[1][2] \notin {"end", "raise"}
SomeExecution == Calls("execute_cypher") > 0
NoExecutionSucceeded ==
    \A i \in 1..Len(call_log) : call_log[i] # <<"execute_cypher", "ok">>

\* the three exits of section 4.3
ExitRejected == LastCall[1] = "guardrails"
ExitSucceeded == LastCall = <<"execute_cypher", "ok">>
ExitExhausted == LastCall[1] = "correct_cypher" /\ next_action = "end"

\* C1: in a run the guardrail accepts and in which every execution fails, the
\* corrector is invoked exactly 3 times, retry_count ends at 3 and the run
\* ends with the failure message; a Correct step entered with retry_count > 2
\* does not invoke the corrector.
C1_ExactlyThreeCorrections ==
    /\ []((RunOver /\ GuardrailAccepted /\ SomeExecution /\ NoExecutionSucceeded)
            => (/\ qa_node = "END"
                /\ Calls("correct_cypher") = 3
                /\ retry_count = 3
                /\ answer = FailureMessage))
    /\ [][(qa_node = "correct_cypher" /\ retry_count > 2)
            => Calls("correct_cypher")' = Calls("correct_cypher")]_vars

\* C2: every query run eventually reaches Terminal, whatever the
\* capabilities and the graph store return or raise.
C2_EventuallyTerminal == <>(qa_node = "END")

\* C3: a query run ends by guardrail rejection, by a successful execution or
\* by exhausting the retry budget, exactly one of them, and in no other way.
C3_ThreeExitsOnly ==
    RunOver =>
        \/ ExitRejected /\ ~ExitSucceeded /\ ~ExitExhausted
        \/ ~ExitRejected /\ ExitSucceeded /\ ~ExitExhausted
        \/ ~ExitRejected /\ ~ExitSucceeded /\ ExitExhausted

\* C4: no failure of a capability or of the graph store leaves the
\* orchestrator as an exception: the run is never in the "raised" state.
C4_NoExceptionEscapes == qa_node # "raised"

\* C5: a run that reaches Terminal, by any exit, has its answer set.
C5_AnswerSetAtTerminal == qa_node = "END" => answer # Unset

\* C6: when the guardrail decides "out of domain" the answer is the refusal
\* message, the run is at Terminal, and the guardrail call is the only call
\* made: no generator, corrector or execution call.
C6_RejectionGoesStraightToTerminal ==
    (call_log # <<>> /\ call_log[1] = <<"guardrails", "end">>) =>
        /\ qa_node = "END"
        /\ answer = RefusalMessage
        /\ call_log = << <<"guardrails", "end">> >>
        /\ cypher_statement = Unset /\ retrieved_chunks = UnsetRows

C6_Witness ==
    /\ qa_node = "END"
    /\ call_log = << <<"guardrails", "end">> >>
    /\ answer = RefusalMessage

\* C7: when the guardrail call raises, the run ends exactly as for an
\* "out of domain" decision: refusal message, Terminal, nothing generated or
\* executed; the question never reaches Generate.
C7_GuardrailFailureRejects ==
    (call_log # <<>> /\ call_log[1] = <<"guardrails", "raise">>) =>
        /\ qa_node = "END"
        /\ answer = RefusalMessage
        /\ next_action = "end"
        /\ call_log = << <<"guardrails", "raise">> >>
        /\ cypher_statement = Unset /\ retrieved_chunks = UnsetRows

C7_Witness ==
    /\ qa_node = "END"
    /\ call_log = << <<"guardrails", "raise">> >>
    /\ answer = RefusalMessage

\* C8: when the generator fails, the Generate step still goes on to Execute,
\* with the empty string as query text.
C8_GeneratorFailureProceeds ==
    LastCall = <<"generate_cypher", "raise">> =>
        /\ qa_node = "execute_cypher"
        /\ cypher_statement = ""

-----------------------------------------------------------------------------
(* Properties of an extraction run *)

ExtractorNodes ==
    {"extract_header_information", "extract_author_list",
     "extract_scientific_content", "retain_original_text"}

\* the extraction steps taken so far, and those with a given result
ExtractionSteps == SelectSeq(step_log, LAMBDA e : e[1] \in ExtractorNodes)
StepsWith(result) == SelectSeq(step_log, LAMBDA e : e[3] = result)
FatalError == \E i \in 1..Len(step_log) :
    step_log[i][3] \in {"raise", "no_paragraphs", "classifier_raise", "length_mismatch"}

\* C9: a labelled document whose steps raise no fatal error reaches Terminal
\* after exactly as many extraction steps as it has distinct labels, and
\* every extraction step makes the pending queue strictly shorter.
C9_OneStepPerDistinctLabel ==
    /\ []((ex_node = "END" /\ ~FatalError)
            => Len(ExtractionSteps) = Cardinality(KeySet(paragraphs)))
    /\ [][(ex_node \in ExtractorNodes /\ ex_node' # "raised")
            => (Len(pending_labels') < Len(pending_labels))]_vars

HAS == <<"HeaderInformation", "AuthorList", "ScientificContent">>
LabelledHAS == DictKeys(paragraphs) = HAS
HeaderFailed ==
    \E i \in 1..Len(step_log) :
        step_log[i] = <<"extract_header_information", "HeaderInformation", "raise">>
AuthorFailed ==
    \E i \in 1..Len(step_log) :
        step_log[i] = <<"extract_author_list", "AuthorList", "fail">>
ScientificDone ==
    \E i \in 1..Len(step_log) :
        step_log[i] = <<"extract_scientific_content", "ScientificContent", "ok">>

\* C10: for a document labelled [HeaderInformation, AuthorList,
\* ScientificContent]: when the header extractor fails the run is aborted;
\* when only the AuthorList extractor fails, the run is not aborted, and once
\* the three steps are done the pending queue is empty and the accumulated
\* result holds the header's and the scientific content's fields and no
\* author field, up to and at Terminal.
C10_HeaderFatalAuthorSkipped ==
    /\ (LabelledHAS /\ HeaderFailed) => ex_node = "raised"
    /\ (LabelledHAS /\ AuthorFailed /\ ~FatalError) => ex_node # "raised"
    /\ (LabelledHAS /\ AuthorFailed /\ ScientificDone) =>
          /\ ex_node \in {"router_node", "END"}
          /\ pending_labels = <<>>
          /\ HeaderFields \cup ScientificFields \subseteq KeySet(extracted_dset)
          /\ AuthorFields \cap KeySet(extracted_dset) = {}

C10_Witness ==
    /\ LabelledHAS /\ AuthorFailed /\ ScientificDone
    /\ ex_node = "END"
    /\ pending_labels = <<>>
    /\ Len(step_log) = 4

RunAborted == ex_node = "raised"
LastStep == IF step_log = <<>> THEN <<"none", "none", "none">> ELSE step_log[Len(step_log)]

\* C11: a failure of the extractor of any label other than HeaderInformation
\* does not abort the run: the step merges nothing, pops the head of the
\* pending queue and the run goes on (an aborted run was aborted in
\* text_split or by the header step).
C11_OnlyHeaderFailureIsFatal ==
    /\ [](RunAborted => LastStep[1] \in {"text_split", "extract_header_information"})
    /\ [][(ex_node \in ExtractorNodes \ {"extract_header_information"}
             /\ step_log' # step_log /\ LastStep'[3] \in {"fail", "raise"})
            => (/\ ex_node' = "router_node"
                /\ extracted_dset' = extracted_dset
                /\ pending_labels' = Rest(pending_labels))]_vars

\* C12: the run goes to Terminal only from a state whose pending queue is
\* empty, whatever label strings the classifier returned.
C12_TerminalOnlyWithEmptyQueue == ex_node = "END" => pending_labels = <<>>

-----------------------------------------------------------------------------
(* Properties of group_paragraphs_by_labels *)

\* the distinct elements of a sequence, in the order of their first occurrence
FirstOccurrences(seq) ==
    LET firsts == {i \in 1..Len(seq) : \A j \in 1..(i - 1) : seq[j] # seq[i]}
        RECURSIVE Ordered(_)
        Ordered(I) == IF I = {} THEN <<>>
                      ELSE LET m == CHOOSE i \in I : \A j \in I : i <= j IN
                           <<seq[m]>> \o Ordered(I \ {m})
    IN Ordered(firsts)

\* the paragraphs that carry a tag, in their original order
RECURSIVE ParagraphsOf(_, _, _)
ParagraphsOf(paras, tags, tag) ==
    IF paras = <<>> THEN <<>>
    ELSE (IF tags[1] = tag THEN <<paras[1]>> ELSE <<>>)
         \o ParagraphsOf(Tail(paras), Tail(tags), tag)

\* a list of paragraphs joined by blank lines
JoinedByBlankLine(seq) ==
    [k \in 1..(2 * Len(seq) - 1) |-> IF k % 2 = 1 THEN seq[(k + 1) \div 2] ELSE "\n\n"]

GroupCalled == fn_pc = "done" /\ fn_args # <<>>
GroupEqualLengths == Len(fn_args[1]) = Len(fn_args[2])

\* C13: for lists of equal length the mapping returned has the labels given
\* as its keys, in the order of their first occurrence, and each label's
\* text is the paragraphs carrying the label, each once, in their original
\* order, joined by a blank line.
C13_GroupingPreservesOrder ==
    (GroupCalled /\ GroupEqualLengths) =>
        LET paras == fn_args[1]
            tags == fn_args[2]
            grouped == fn_result.grouped IN
        /\ ~fn_result.raised
        /\ DictKeys(grouped) = FirstOccurrences(tags)
        /\ KeySet(grouped) = Range(tags)
        /\ \A i \in 1..Len(grouped) :
             grouped[i][2] = JoinedByBlankLine(ParagraphsOf(paras, tags, grouped[i][1]))

C13_Witness ==
    /\ GroupCalled
    /\ fn_args = << <<"Intro", "Methods", "Results">>, <<"B", "A", "B">> >>
    /\ fn_result.grouped = << <<"B", <<"Intro", "\n\n", "Results">> >>,
                              <<"A", <<"Methods">> >> >>

\* C14: for lists of unequal length the call fails with the length-mismatch
\* error and no mapping, not even a partial one, is produced.
C14_LengthMismatchFails ==
    (GroupCalled /\ ~GroupEqualLengths) =>
        /\ fn_result.raised
        /\ fn_result.grouped = <<>>

C14_Witness ==
    /\ GroupCalled
    /\ Len(fn_args[1]) = 2 /\ Len(fn_args[2]) = 3
    /\ fn_result.raised

-----------------------------------------------------------------------------
(* Properties of header_regex_match *)

HeaderCalled == fn_pc = "done" /\ fn_args # <<>>
HeaderLines == fn_args[1]

\* the five fields and nothing else, one per line, in the order required
WellFormedHeader ==
    /\ Len(HeaderLines) = 5
    /\ \A i \in 1..5 : HeaderLines[i][1] = FieldMarkers[i]

ValueOf(marker) ==
    HeaderLines[CHOOSE i \in 1..Len(HeaderLines) : HeaderLines[i][1] = marker][2]

\* the trimmed FROM value ends with "<", an address and ">"
TrimmedFrom == StripText(ValueOf("FROM:"))
IsAddressAt(p) ==
    /\ TrimmedFrom[p] = "<"
    /\ TrimmedFrom[Len(TrimmedFrom)] = ">"
    /\ p + 1 < Len(TrimmedFrom)
    /\ \A k \in (p + 1)..(Len(TrimmedFrom) - 1) : TrimmedFrom[k] \notin {"<", ">"}
EndsWithAddress == \E p \in 1..Len(TrimmedFrom) : IsAddressAt(p)
BracketAt == CHOOSE p \in 1..Len(TrimmedFrom) : IsAddressAt(p)

\* C15: on a well-formed header the record holds the trimmed NUMBER, SUBJECT
\* and DATE values as circularId, subject and createdOn; when the FROM value
\* ends with an address in angle brackets, submitter is the trimmed text
\* before the bracket and email the address; otherwise submitter is the whole
\* trimmed FROM value and email is empty.
C15_HeaderFieldsParsed ==
    (HeaderCalled /\ WellFormedHeader) =>
        /\ ~fn_result.raised
        /\ DictKeys(fn_result.record) = HeaderKeys
        /\ DictGet(fn_result.record, "circularId", <<>>) = StripText(ValueOf("NUMBER:"))
        /\ DictGet(fn_result.record, "subject", <<>>) = StripText(ValueOf("SUBJECT:"))
        /\ DictGet(fn_result.record, "createdOn", <<>>) = StripText(ValueOf("DATE:"))
        /\ IF EndsWithAddress
           THEN /\ DictGet(fn_result.record, "submitter", <<>>)
                     = StripText(SubSeq(TrimmedFrom, 1, BracketAt - 1))
                /\ DictGet(fn_result.record, "email", <<>>)
                     = StripText(SubSeq(TrimmedFrom, BracketAt + 1, Len(TrimmedFrom) - 1))
           ELSE /\ DictGet(fn_result.record, "submitter", <<>>) = TrimmedFrom
                /\ DictGet(fn_result.record, "email", <<>>) = <<>>

C15_Witness ==
    /\ HeaderCalled
    /\ WellFormedHeader
    /\ fn_args[2] = "indented"
    /\ ValueOf("NUMBER:") = <<" ", " ", "12345", " ">>
    /\ ValueOf("FROM:") = <<" ", "First", " ", "Name", " ", " ", "<", " ", "e@x.com", " ", ">">>
    /\ fn_result.record = << <<"circularId", <<"12345">> >>,
                             <<"subject", <<"X">> >>,
                             <<"createdOn", <<"D">> >>,
                             <<"submitter", <<"First", " ", "Name">> >>,
                             <<"email", <<"e@x.com">> >> >>

\* the five field markers occur in a text in the order required
RECURSIVE OccurInOrder(_, _)
OccurInOrder(markers, text) ==
    IF markers = <<>> THEN TRUE
    ELSE IF text = <<>> THEN FALSE
    ELSE IF text[1] = markers[1] THEN OccurInOrder(Tail(markers), Tail(text))
    ELSE OccurInOrder(markers, Tail(text))
FieldsInOrder(text) == OccurInOrder(FieldMarkers, text)

\* the fields only the header step writes: no retained label has them as key
HeaderOnlyFields == HeaderFields \ {retained_key(l) : l \in ClassifierLabels}

HeaderStepTaken ==
    \E i \in 1..Len(step_log) : step_log[i][1] = "extract_header_information"

\* C16: for a header text in which one of TITLE, NUMBER, SUBJECT, DATE, FROM
\* is missing, or in which they do not come in that order, the parser raises
\* and returns no record; in an extraction run the header step then aborts
\* the run and no header field is written.
C16_MalformedHeaderRaises ==
    /\ (HeaderCalled /\ ~FieldsInOrder(render_header(fn_args[1], fn_args[2]))) =>
          /\ fn_result.raised
          /\ fn_result.record = <<>>
    /\ (/\ HeaderStepTaken
        /\ ~FieldsInOrder(Tokens(DictGet(paragraphs, "HeaderInformation", <<>>)))) =>
          /\ ex_node = "raised"
          /\ HeaderOnlyFields \cap KeySet(extracted_dset) = {}

C16_Witness ==
    /\ HeaderCalled
    /\ Len(HeaderLines) = 5
    /\ {HeaderLines[i][1] : i \in 1..5} = Range(FieldMarkers)
    /\ HeaderLines[3][1] = "DATE:" /\ HeaderLines[4][1] = "SUBJECT:"
    /\ fn_result.raised

-----------------------------------------------------------------------------
(* Properties of graph ingestion *)

\* the files of the batch of which a write statement failed
RunFailedFiles == {file_log[i][1] : i \in {j \in 1..Len(file_log) : file_log[j][2] = "run_failed"}}

\* C17: when a write statement fails inside the transaction scope, none of
\* the scope's writes is committed; the statements run for a file before one
\* of its statements failed are never part of a committed write set.
C17_FailedWriteCommitsNothing ==
    /\ RunFailedFiles # {} => committed = <<>>
    /\ \A i \in 1..Len(committed) : committed[i][1] \notin RunFailedFiles

SkippedKinds == {"unreadable", "invalid_json", "empty"}
AtSkippedFile ==
    /\ bd_pc = "loop"
    /\ file_index <= Len(json_files)
    /\ json_files[file_index].kind \in SkippedKinds

\* C18: a file that cannot be read, is not valid JSON or has an empty
\* payload adds one to files_skipped and nothing else: no write is issued
\* for it, the loop goes on with the next file, and when the run returns
\* after the loop every file of the batch has been handled.
C18_BadFileSkippedLoopGoesOn ==
    /\ []((bd_pc = "returned" /\ json_files # <<>>) =>
            /\ Len(file_log) = Len(json_files)
            /\ \A i \in 1..Len(json_files) : file_log[i][1] = i)
    /\ [][AtSkippedFile =>
            (/\ count'.files_skipped = count.files_skipped + 1
             /\ count'.files_processed = count.files_processed
             /\ tx_writes' = tx_writes
             /\ committed' = committed
             /\ file_index' = file_index + 1
             /\ bd_pc' = "loop")]_vars

C18_Witness ==
    /\ bd_pc = "returned"
    /\ Len(file_log) = 3
    /\ file_log[1] = <<1, "invalid_json">>
    /\ file_log[2] = <<2, "empty">>
    /\ file_log[3] = <<3, "processed">>
    /\ count = [files_processed |-> 1, files_skipped |-> 2]
    /\ committed # <<>>

-----------------------------------------------------------------------------
(* Properties of _run_extraction *)

ReadFailed == step_log # <<>> /\ step_log[1] = <<"read_text", "", "read_failed">>
HasReturned == returned # NotReturned

\* C19: when reading the input fails, or the workflow aborts with a fatal
\* error (no paragraphs, classifier failure, label-count mismatch, header
\* failure or any other exception of a step), _run_extraction raises nothing
\* and returns the empty dict; the final state of the workflow is returned
\* only when the workflow reached its end.
C19_EmptyDictOnFailure ==
    /\ ReadFailed => returned = EmptyDict
    /\ (RunAborted /\ HasReturned) => returned = EmptyDict
    /\ returned.kind = "exception" => (~ReadFailed /\ ~RunAborted)
    /\ returned.kind = "state" =>
          /\ ex_node = "END"
          /\ returned.raw_text = raw_text
          /\ returned.extracted_dset = extracted_dset

C19_Witness ==
    /\ RunAborted
    /\ LastStep = <<"extract_header_information", "HeaderInformation", "raise">>
    /\ returned = EmptyDict

-----------------------------------------------------------------------------
(* Properties of retry_count *)

CorrectorInvoked == Calls("correct_cypher")' = Calls("correct_cypher") + 1

\* C20: retry_count starts at 0 and never exceeds 3; a Correct step that
\* invokes the corrector increases it by exactly 1, and no other step
\* changes it.
C20_RetryCountCountsCorrections ==
    /\ retry_count = 0
    /\ [](retry_count \in 0..3)
    /\ [][IF qa_node = "correct_cypher" /\ CorrectorInvoked
          THEN retry_count' = retry_count + 1
          ELSE retry_count' = retry_count]_vars

-----------------------------------------------------------------------------
(* Properties of the Correct and Execute steps *)

CallMade == call_log' # call_log

\* C21: when the corrector fails in a Correct step taken with retry budget
\* remaining, the step still adds 1 to retry_count and goes to Execute with
\* the empty string as the query text.
C21_CorrectorFailureStillRetries ==
    [][(/\ qa_node = "correct_cypher"
        /\ retry_count <= 2
        /\ CallMade
        /\ LastCall' = <<"correct_cypher", "raise">>)
       => (/\ retry_count' = retry_count + 1
           /\ cypher_statement' = ""
           /\ next_action' = "execute_cypher"
           /\ qa_node' = "execute_cypher")]_vars

C21_Witness ==
    /\ LastCall = <<"correct_cypher", "raise">>
    /\ qa_node = "execute_cypher"
    /\ cypher_statement = ""
    /\ retry_count = 2

\* C22: an Execute step whose query succeeds stores the rows returned and
\* the run goes to Terminal without another generator, corrector or
\* execution call; an Execute step whose query fails stores the error,
\* leaves the rows and the query text as they were, and Correct is next.
C22_ExecuteOutcomes ==
    /\ [][(qa_node = "execute_cypher" /\ CallMade
            /\ LastCall' = <<"execute_cypher", "ok">>)
          => (/\ retrieved_chunks' \in RowSets
              /\ cypher_error' = cypher_error
              /\ cypher_statement' = cypher_statement
              /\ qa_node' = "generate_final_answer")]_vars
    /\ [][qa_node = "generate_final_answer"
          => (/\ qa_node' = "END"
              /\ call_log' = call_log
              /\ retrieved_chunks' = retrieved_chunks)]_vars
    /\ [][qa_node = "END" => UNCHANGED call_log]_vars
    /\ (qa_node = "generate_final_answer") ~> (qa_node = "END")
    /\ [][(qa_node = "execute_cypher" /\ CallMade
            /\ LastCall' = <<"execute_cypher", "raise">>)
          => (/\ cypher_error' \in Errors
              /\ retrieved_chunks' = retrieved_chunks
              /\ cypher_statement' = cypher_statement
              /\ qa_node' = "correct_cypher")]_vars

C22_Witness ==
    /\ qa_node = "END"
    /\ LastCall = <<"execute_cypher", "ok">>
    /\ retrieved_chunks \in RowSets \ {<<>>}
    /\ cypher_error \in Errors
    /\ retry_count = 1

-----------------------------------------------------------------------------
(* Properties of the pending queue and of the accumulated result *)

AfterSplitting == ex_node \notin {"idle", "read_text", "text_split"}

IsSuffix(s, t) ==
    /\ Len(s) <= Len(t)
    /\ s = SubSeq(t, Len(t) - Len(s) + 1, Len(t))

\* C23: after Splitting the pending queue is a suffix of the key order of
\* the grouped paragraphs; an extraction step that does not abort the run
\* removes exactly the head of the queue, and no step adds or reorders an
\* entry.
C23_QueueIsSuffixOfLabelOrder ==
    /\ [](AfterSplitting => IsSuffix(pending_labels, DictKeys(paragraphs)))
    /\ [][(ex_node \in ExtractorNodes /\ ex_node' # "raised")
          => (/\ pending_labels # <<>>
              /\ pending_labels' = Tail(pending_labels))]_vars
    /\ [][AfterSplitting => IsSuffix(pending_labels', pending_labels)]_vars

C23_Witness ==
    /\ ex_node = "router_node"
    /\ DictKeys(paragraphs) = <<"AuthorList", "Subject", "ExternalLinks">>
    /\ pending_labels = <<"ExternalLinks">>
    /\ Len(step_log) = 3
    /\ step_log[2][3] = "fail"
    /\ step_log[3][3] = "ok"

OwnExtractorLabels == {"HeaderInformation", "AuthorList", "ScientificContent"}

\* C24: a label that is neither HeaderInformation, AuthorList nor
\* ScientificContent, recognized or not, is routed to verbatim retention; the
\* step stores the label's paragraph text unchanged under the label with its
\* first character in lower case, does not raise and pops the head of the
\* queue.
C24_OtherLabelsRetainedVerbatim ==
    /\ [][(/\ ex_node = "router_node"
           /\ pending_labels # <<>>
           /\ pending_labels[1] \notin OwnExtractorLabels)
          => ex_node' = "retain_original_text"]_vars
    /\ [][ex_node = "retain_original_text"
          => (/\ ex_node' = "router_node"
              /\ pending_labels' = Tail(pending_labels)
              /\ DictGet(extracted_dset', retained_key(current_label), <<>>)
                   = DictGet(paragraphs, current_label, <<>>)
              /\ DictGet(paragraphs, current_label, <<>>) # <<>>)]_vars

\* the fields a step of the log wrote
WrittenBy(i) ==
    LET node == step_log[i][1]
        label == step_log[i][2] IN
    IF step_log[i][3] # "ok" THEN <<>>
    ELSE CASE node = "extract_header_information" ->
                header_regex_match(Tokens(DictGet(paragraphs, label, <<>>))).record
           [] node = "extract_author_list" -> FieldsOf(AuthorKeys, "AuthorList")
           [] node = "extract_scientific_content" ->
                FieldsOf(ScientificKeys, "ScientificContent")
           [] node = "retain_original_text" ->
                << <<retained_key(label), DictGet(paragraphs, label, <<>>)>> >>
           [] OTHER -> <<>>

\* the fields written by the steps of the log, step by step
Written == [i \in 1..Len(step_log) |-> WrittenBy(i)] \o <<>>

\* C25: at Terminal the accumulated result holds every field a step wrote,
\* and for a field two steps wrote, the value of the step that ran later.
C25_LastWriterWins ==
    ex_node = "END" =>
        LET W == Written
            Writers(k) == {i \in 1..Len(W) : k \in KeySet(W[i])}
            LastWriter(k) == CHOOSE i \in Writers(k) : \A j \in Writers(k) : j <= i
        IN /\ KeySet(extracted_dset) = UNION {KeySet(W[i]) : i \in 1..Len(W)}
           /\ \A k \in KeySet(extracted_dset) :
                DictGet(extracted_dset, k, <<>>) = DictGet(W[LastWriter(k)], k, <<>>)

C25_Witness ==
    /\ ex_node = "END"
    /\ DictKeys(paragraphs) = <<"HeaderInformation", "Subject">>
    /\ Len(step_log) = 3
    /\ step_log[2] = <<"extract_header_information", "HeaderInformation", "ok">>
    /\ step_log[3] = <<"retain_original_text", "Subject", "ok">>
    /\ DictGet(extracted_dset, "subject", <<>>) = DictGet(paragraphs, "Subject", <<>>)
    /\ DictGet(extracted_dset, "circularId", <<>>) = <<"12345">>

\* C26: the set of field names of the accumulated result never shrinks, and
\* a step that skips or fails without aborting the run leaves the
\* accumulated result as it was.
C26_ResultOnlyGrows ==
    /\ [][KeySet(extracted_dset) \subseteq KeySet(extracted_dset')]_vars
    /\ [][(step_log' # step_log /\ LastStep'[3] \in {"skip", "fail"})
          => extracted_dset' = extracted_dset]_vars

C26_Witness ==
    /\ LastStep = <<"extract_author_list", "AuthorList", "fail">>
    /\ ex_node = "router_node"
    /\ HeaderFields \subseteq KeySet(extracted_dset)
    /\ AuthorFields \cap KeySet(extracted_dset) = {}

-----------------------------------------------------------------------------
(* Properties of the Splitting step *)

SplitLog == step_log[1]

\* C27: when the raw text is empty or holds only whitespace, the run aborts
\* in Splitting: the classifier is not invoked and no extraction step runs.
C27_NoSegmentsAborts ==
    (ex_node # "text_split" /\ IsBlank(raw_text)) =>
        /\ ex_node = "raised"
        /\ step_log = << <<"text_split", "", "no_paragraphs">> >>
        /\ paragraphs = <<>>
        /\ pending_labels = <<>>
        /\ extracted_dset = <<>>

C27_Witness ==
    /\ raw_text = <<" ", " ">>
    /\ ex_node = "raised"
    /\ Len(step_log) = 1

ClassifierFailed == SplitLog[3] = "classifier_raise"
LabelCountDiffers ==
    /\ SplitLog[2] # ""
    /\ SplitLog[2] # ToString(Len(SelectSeq(raw_text, LAMBDA q : strip(q) # "")))

\* C28: when the classifier call fails, or returns a list of labels whose
\* length is not the number of segments, the run aborts in Splitting: the
\* pending queue is never populated and no extraction step runs.
C28_ClassifierFailureAborts ==
    (step_log # <<>> /\ (ClassifierFailed \/ LabelCountDiffers)) =>
        /\ ex_node = "raised"
        /\ Len(step_log) = 1
        /\ paragraphs = <<>>
        /\ pending_labels = <<>>
        /\ extracted_dset = <<>>

C28_Witness ==
    /\ ex_node = "raised"
    /\ Len(SelectSeq(raw_text, LAMBDA q : strip(q) # "")) = 2
    /\ SplitLog = <<"text_split", "3", "length_mismatch">>

\* C29: no step modifies raw_text; after Splitting no step modifies the
\* grouped paragraphs; the output of a run that reached Terminal holds the
\* original raw text and the accumulated result.
C29_RawTextAndParagraphsKept ==
    /\ [][raw_text' = raw_text]_vars
    /\ [][AfterSplitting => paragraphs' = paragraphs]_vars
    /\ [](returned.kind = "state" =>
            /\ ex_node = "END"
            /\ returned.raw_text = raw_text
            /\ returned.extracted_dset = extracted_dset)

C29_Witness ==
    /\ returned.kind = "state"
    /\ returned.raw_text = <<" text ", "TITLE:..FROM:..", " ">>
    /\ returned.extracted_dset # <<>>

\* the labels of the extraction steps taken, in the order taken
StepLabels == [i \in 1..Len(ExtractionSteps) |-> ExtractionSteps[i][2]]

\* C30: the labels are extracted in the order of their first occurrence in
\* the classifier's list: at Terminal the labels selected are the keys of
\* the grouped paragraphs, in their order, each once.
C30_ExtractionFollowsLabelOrder ==
    /\ AfterSplitting =>
          /\ Len(StepLabels) <= Len(paragraphs)
          /\ StepLabels = SubSeq(DictKeys(paragraphs), 1, Len(StepLabels))
    /\ ex_node = "END" => StepLabels = DictKeys(paragraphs)

-----------------------------------------------------------------------------
(* Properties of the query run: executions, corrector inputs, guardrail *)

\* C36: Execute runs at most 4 times in a run, once for the generated query
\* and once per correction (at most 3), and exactly 4 times in a run whose
\* executions all fail.
C36_ExecuteAtMostFourTimes ==
    /\ Calls("execute_cypher") <= 4
    /\ retry_count <= 3
    /\ Calls("execute_cypher") =
          IF qa_node = "execute_cypher" THEN retry_count
          ELSE IF SomeExecution THEN 1 + retry_count ELSE 0
    /\ (RunOver /\ SomeExecution /\ NoExecutionSucceeded) =>
          Calls("execute_cypher") = 4

C36_Witness ==
    /\ qa_node = "END"
    /\ Calls("execute_cypher") = 4
    /\ NoExecutionSucceeded
    /\ answer = FailureMessage

\* C37: every invocation of the corrector chain receives the query of the
\* failed execution that immediately precedes it and the error that
\* execution raised, never those of an older execution.
C37_CorrectorGetsLatestQueryAndError ==
    /\ \A i \in 1..Len(io_log) :
          io_log[i][1] = "correct_cypher" =>
              /\ i > 1
              /\ io_log[i - 1] = <<"execute_cypher", io_log[i][2], io_log[i][3]>>
    /\ \A i \in 1..Len(call_log) :
          call_log[i][1] = "correct_cypher" =>
              /\ i > 1
              /\ call_log[i - 1] = <<"execute_cypher", "raise">>
    /\ qa_node = "correct_cypher" =>
          /\ LastCall = <<"execute_cypher", "raise">>
          /\ io_log[Len(io_log)] = <<"execute_cypher", cypher_statement, cypher_error>>

C37_Witness ==
    \E i \in 3..Len(io_log) :
        /\ io_log[i] = <<"correct_cypher", "", "err2">>
        /\ io_log[i - 2] = <<"correct_cypher", "MATCH1", "err1">>

\* C38: the guardrail step ends the run exactly when the decision is "end"
\* or the call raised; on any other decision it returns next_action =
\* generate_cypher and writes no answer.
C38_GuardrailEndsOnlyOnEnd ==
    [][qa_node = "guardrails" =>
          LET outcome == call_log'[1][2] IN
          /\ (qa_node' = "END") <=> (outcome \in {"end", "raise"})
          /\ (next_action' = "end") <=> (outcome \in {"end", "raise"})
          /\ outcome \notin {"end", "raise"} =>
                /\ next_action' = "generate_cypher"
                /\ qa_node' = "generate_cypher"
                /\ answer' = Unset]_vars

C38_Witness ==
    /\ call_log = << <<"guardrails", "End">> >>
    /\ qa_node = "generate_cypher"
    /\ next_action = "generate_cypher"
    /\ answer = Unset

-----------------------------------------------------------------------------
(* Properties of graph ingestion: the statements of a record, file counts *)

CypherCalled == fn_pc = "done"

\* whether the record given to build_cypher_statements holds a value under
\* the key that is neither an empty string nor an empty list
HoldsNonEmpty(key) ==
    \E i \in 1..Len(fn_args[1].extracted_dset) :
        /\ fn_args[1].extracted_dset[i][1] = key
        /\ Len(fn_args[1].extracted_dset[i][2]) > 0
        /\ fn_args[1].extracted_dset[i][2][1] # ""

\* the circularId of the record, None when it has none
RecordCircularId ==
    IF \E i \in 1..Len(fn_args[1].extracted_dset) :
          fn_args[1].extracted_dset[i][1] = "circularId"
    THEN (CHOOSE item \in Range(fn_args[1].extracted_dset) : item[1] = "circularId")[2]
    ELSE NoneValue

\* C34: build_cypher_statements returns the CIRCULAR statement first, then
\* the collaboration statement exactly when the collaboration value is not
\* empty, then the authors statement exactly when the authors list is not
\* empty: one to three statements in that order, each with the record's
\* circularId as parameter.
C34_StatementsInOrder ==
    (CypherCalled /\ fn_args[1].kind = "dict") =>
        LET statements == fn_result.statements
            queries == [i \in 1..Len(statements) |-> statements[i][1]]
        IN /\ ~fn_result.raised
           /\ Len(statements) \in 1..3
           /\ queries = <<"CIRCULAR">>
                  \o (IF HoldsNonEmpty("collaboration") THEN <<"COLLABORATION">> ELSE <<>>)
                  \o (IF HoldsNonEmpty("authors") THEN <<"AUTHORS">> ELSE <<>>)
           /\ \A i \in 1..Len(statements) :
                 /\ statements[i][2][1][1] = "circularId"
                 /\ statements[i][2][1][2] = RecordCircularId

C34_Witness ==
    /\ CypherCalled
    /\ fn_args[1].extracted_dset =
          << <<"circularId", <<"41">> >>, <<"collaboration", <<"null">> >>,
             <<"authors", <<"A. Author">> >> >>
    /\ Len(fn_result.statements) = 3
    /\ fn_result.statements[2][1] = "COLLABORATION"
    /\ fn_result.statements[3][2][1] = <<"circularId", <<"41">> >>

\* the files of the batch logged with the outcome
FilesLogged(outcome) ==
    {file_log[i][1] : i \in {j \in 1..Len(file_log) : file_log[j][2] = outcome}}

\* C39: when _run_builder returns after the loop over a batch of files,
\* files_processed + files_skipped is the number of files, every file was
\* counted once, and a file counts as processed only if all its statements
\* were run without an error.
C39_EveryFileCountedOnce ==
    (bd_pc = "returned" /\ input_path.kind \in {"json_file", "dir"}) =>
        /\ count.files_processed + count.files_skipped = Len(json_files)
        /\ [i \in 1..Len(file_log) |-> file_log[i][1]] = [i \in 1..Len(json_files) |-> i]
        /\ count.files_processed = Cardinality(FilesLogged("processed"))
        /\ \A f \in FilesLogged("processed") :
              LET built == build_cypher_statements(json_files[f]) IN
              /\ ~built.raised
              /\ SelectSeq(tx_writes, LAMBDA w : w[1] = f) =
                    [j \in 1..Len(built.statements) |-> <<f, built.statements[j]>>]

C39_Witness ==
    /\ bd_pc = "returned"
    /\ Len(json_files) = 3
    /\ count = [files_processed |-> 1, files_skipped |-> 2]
    /\ FilesLogged("run_failed") = {1}
    /\ FilesLogged("invalid_json") = {2}
    /\ FilesLogged("processed") = {3}

-----------------------------------------------------------------------------
(* Properties of split_text_into_paragraphs *)

SplitCalled == fn_pc = "done"

\* the words of a text: its characters that are not whitespace, in order
WordsOf(text) == SelectSeq(text, LAMBDA t : ~IsSpace(t))

RECURSIVE Flatten(_)
Flatten(seqs) == IF seqs = <<>> THEN <<>> ELSE seqs[1] \o Flatten(Tail(seqs))

\* the positions of the words of the text split that open a paragraph: the
\* first word, and every word with a blank line (whitespace holding two
\* newlines or more) between it and the word before
ParagraphStarts ==
    LET text == fn_args[1]
        words == {i \in 1..Len(text) : ~IsSpace(text[i])}
        newlines(a, b) == Cardinality({j \in (a + 1)..(b - 1) : text[j] = "\n"})
    IN {i \in words :
          \A h \in words :
              (h < i /\ \A m \in words : ~(h < m /\ m < i)) => newlines(h, i) >= 2}

\* C33: split_text_into_paragraphs returns the pieces of the text that blank
\* lines separate, in the order of the text, each non-empty and without
\* whitespace at its ends; blank lines in a row and whitespace around the
\* text give no empty and no untrimmed segment.
C33_SegmentsNonEmptyTrimmedInOrder ==
    SplitCalled =>
        /\ \A i \in 1..Len(fn_result) :
              /\ fn_result[i] # <<>>
              /\ ~IsSpace(fn_result[i][1])
              /\ ~IsSpace(fn_result[i][Len(fn_result[i])])
              /\ \E a, b \in 1..Len(fn_args[1]) : fn_result[i] = SubSeq(fn_args[1], a, b)
        /\ WordsOf(Flatten(fn_result)) = WordsOf(fn_args[1])
        /\ Len(fn_result) = Cardinality(ParagraphStarts)

C33_Witness ==
    /\ SplitCalled
    /\ fn_args[1] = <<" ", "A", "\n", " ", "\n", "B">>
    /\ fn_result = << <<"A">>, <<"B">> >>

\* C32: for lists of equal length, splitting the text grouped under a label
\* at the blank lines gives back the paragraphs that carried the label, in
\* their original order, each as often as it carried the label.
C32_GroupedTextSplitsBack ==
    (GroupCalled /\ GroupEqualLengths) =>
        LET paras == fn_args[1]
            tags == fn_args[2]
            grouped == fn_result.grouped IN
        /\ ~fn_result.raised
        /\ \A tag \in Range(tags) : tag \in KeySet(grouped)
        /\ \A i \in 1..Len(grouped) :
              LET carried == ParagraphsOf(paras, tags, grouped[i][1])
                  expected == [j \in 1..Len(carried) |-> PieceTokens(carried[j])]
              IN /\ split_on_blank_line(Tokens(grouped[i][2])) = expected
                 /\ split_text_into_paragraphs(Tokens(grouped[i][2])) = expected

C32_Witness ==
    /\ GroupCalled
    /\ fn_args = << <<"Intro", "TITLE:..FROM:..", "Intro">>, <<"B", "A", "B">> >>
    /\ split_on_blank_line(Tokens(fn_result.grouped[1][2])) = << <<"Intro">>, <<"Intro">> >>
    /\ Len(split_on_blank_line(Tokens(fn_result.grouped[2][2]))) = 1

-----------------------------------------------------------------------------
(* Properties of an extraction run: determinism, pending labels, header *)

\* the key an extraction step reads from the grouped paragraphs
KeyRead(node, label) ==
    CASE node = "extract_header_information" -> "HeaderInformation"
      [] node = "extract_author_list" -> "AuthorList"
      [] node = "extract_scientific_content" -> "ScientificContent"
      [] OTHER -> label

HasText(key) ==
    /\ key \in KeySet(paragraphs)
    /\ ~IsBlank(DictGet(paragraphs, key, <<>>))

\* the accumulated result obtained by merging what the first n steps wrote
RECURSIVE Replayed(_, _)
Replayed(written, n) ==
    IF n = 0 THEN <<>> ELSE DictMerge(Replayed(written, n - 1), written[n])

\* the state after Splitting is a function of the grouped paragraphs and of
\* what the capabilities returned: the steps follow the key order, each on
\* the node the router gives its label, the queue holds the keys not yet
\* handled and the result is the merge of what the steps wrote
RunDetermined ==
    AfterSplitting =>
        LET steps == ExtractionSteps
            keys == DictKeys(paragraphs)
            popped == Len(SelectSeq(steps, LAMBDA e : e[3] # "raise"))
        IN /\ Len(steps) <= Len(keys)
           /\ \A i \in 1..Len(steps) :
                 /\ steps[i][2] = keys[i]
                 /\ steps[i][1] = router_edge(keys[i])
           /\ pending_labels = SubSeq(keys, popped + 1, Len(keys))
           /\ extracted_dset = Replayed(Written, Len(step_log))
           /\ ex_node = "raised" <=> FatalError

\* C31: two runs on the same segments and labels in which the capabilities
\* return the same go through the same steps and end with the same result
\* and the same, empty, pending queue.
C31_RunsAreDeterministic ==
    /\ RunDetermined
    /\ ex_node = "END" => pending_labels = <<>>

\* C35: after Splitting every label of the pending queue is a key of the
\* grouped paragraphs with a text that is not blank, so no extraction step
\* finds its paragraph missing or blank: no step skips, and the header step
\* raises only for a text the pattern does not match.
C35_PendingLabelsHaveText ==
    AfterSplitting =>
        /\ \A i \in 1..Len(pending_labels) : HasText(pending_labels[i])
        /\ ex_node \in ExtractorNodes => HasText(KeyRead(ex_node, current_label))
        /\ StepsWith("skip") = <<>>
        /\ HeaderFailed =>
              /\ HasText("HeaderInformation")
              /\ ~header_matches(DictGet(paragraphs, "HeaderInformation", <<>>))

C35_Witness ==
    /\ ex_node = "END"
    /\ DictKeys(paragraphs) = <<"AuthorList", "ExternalLinks", "HeaderInformation">>
    /\ Len(StepsWith("ok")) = 4
    /\ pending_labels = <<>>

\* the retained labels whose step wrote the field
RetainedAs(field) ==
    {step_log[i][2] : i \in {j \in 1..Len(step_log) :
        /\ step_log[j][1] = "retain_original_text"
        /\ step_log[j][3] = "ok"
        /\ retained_key(step_log[j][2]) = field}}

====
